---- MODULE Spec2Model ----
(***************************************************************************)
(* Embedding acquisition subsystem of claude-memory-server:                *)
(*   MemoryEmbeddingCache, BaseEmbeddingProvider.retryWithBackoff and the  *)
(*   request coalescer of OllamaEmbeddingProvider (generateWithBatching /  *)
(*   processBatch).                                                        *)
(* The event loop is single-threaded: every action below is one run of a   *)
(* handler from one suspension point (await / timer) to the next.          *)
(***************************************************************************)
EXTENDS Integers, Sequences, FiniteSets, TLC

\* ---------------------------------------------------------------- bounds
MaxCalls == 3        \* generateEmbedding calls issued in one behaviour
MaxNow == 2          \* last value of the clock
MaxAttempts == 4     \* largest maxRetries given to retryWithBackoff
batchSize == 2       \* config.batchSize (32 in createBalanced)
maxSize == 2         \* MemoryEmbeddingCache.maxSize (1000 by default)
ttl == 1             \* MemoryEmbeddingCache.ttl in clock ticks (1 hour by default)
MaxBatchTexts == 3   \* longest list given to generateBatchEmbeddings
MaxLexical == 10     \* most records the full-text index matches for a query

\* ------------------------------------------------------------- constants
maxRetries == 3      \* this.config.maxRetries || 3
MaxDelay == 10000    \* Math.min(..., 10000)
baseDelayDefault == 1000   \* baseDelay: number = 1000
provider == "ollama"
model == "m"

Texts == {"a", "b"}                       \* texts the callers pass
Vectors == {<<1>>, <<2>>}                 \* vectors the provider answers with
ProviderErrors == {"unavailable", "timeout"}
BaseDelays == {1000, 4000}                \* baseDelay arguments (1000 by default)

VARIABLES
  now,              \* Date.now()
  cache,            \* MemoryEmbeddingCache.cache: the Map in insertion order
  lastOp,           \* the last call made on the cache by a direct user, with its result
  lastSet,          \* per key, the time and value of the latest set()
  calls,            \* generateEmbedding calls and how their promises were settled
  batchQueue,       \* OllamaEmbeddingProvider.batchQueue (indices into calls)
  processingBatch,  \* OllamaEmbeddingProvider.processingBatch
  sleepers,         \* processBatch invocations suspended in sleep(50)
  timers,           \* pending setTimeout(() => this.processBatch(), 100)
  dispatched,       \* provider batch calls issued by processBatch, in order
  retry,            \* one retryWithBackoff invocation: its locals and its trace
  batchCall,        \* one generateBatchEmbeddings invocation: its locals and its outcome
  embedLog,         \* the batch requests that invocation made to Ollama, with the answers
  configModel,      \* config.model of the provider behind SemanticSearchService
  memory_embeddings,  \* table memory_embeddings: rows keyed by (memory_id, provider, model)
  embedded,         \* the last generateEmbedding call awaited by generateAndStoreEmbedding
  memories,         \* table memories in rowid order; a record's id is its rowid
  searched,         \* the last searchSimilar call: its arguments and what it returned
  textIndex,        \* the rowids memories_fts matches for the query, in rank order
  hybridSearched,   \* the last hybridSearch call: its arguments and what it returned
  service,          \* MemoryService: config, embeddingProvider, semanticSearchService
  probe,            \* the isAvailable() call of initializeEmbeddings
  served,           \* the last MemoryService.hybridSearch call and its outcome
  similar,          \* the last find_similar_memories request and its response
  clustered,        \* the last clusterMemories call: its arguments and what it returned
  written,          \* the last storeMemory / updateMemory call and its outcome
  backfill,         \* one ensureEmbeddingsExist invocation: its locals and its trace
  providers,        \* two provider instances: config, private cache, last generateEmbedding
  toolCall,         \* the last tool request: its numeric arguments and what the service got
  inflight          \* concurrent MemoryService calls: the embedding generations they await

cacheLog == <<lastOp, lastSet>>
coalescer == <<calls, batchQueue, processingBatch, sleepers, timers, dispatched>>
batching == <<batchCall, embedLog>>
storing == <<configModel, memory_embeddings, embedded>>
searching == <<memories, searched, textIndex, hybridSearched>>
serving == <<service, probe, served>>
analysing == <<similar, clustered>>
maintaining == <<written, backfill>>
isolating == <<providers>>
calling == <<toolCall>>
racing == <<inflight>>
rest == <<batching, storing, searching, serving, analysing, maintaining, isolating,
         calling, racing>>
acquisition == <<now, cache, cacheLog, coalescer, retry>>
vars == <<now, cache, lastOp, lastSet, calls, batchQueue, processingBatch, sleepers,
          timers, dispatched, retry, rest>>

\* ------------------------------------------------- MemoryEmbeddingCache
\* A JavaScript Map keeps its entries in insertion order; setting a key that
\* is present replaces the value in place.
MapIndex(c, key) ==
  IF \E i \in 1..Len(c) : c[i].key = key
  THEN CHOOSE i \in 1..Len(c) : c[i].key = key
  ELSE 0

MapDelete(c, key) == SelectSeq(c, LAMBDA e : e.key # key)

MapSet(c, key, entry) ==
  IF MapIndex(c, key) = 0 THEN Append(c, entry)
  ELSE [c EXCEPT ![MapIndex(c, key)] = entry]

\* JavaScript truthiness of a string: the empty string is falsy.
Truthy(s) == s # ""

\* get(key) without the TTL test
CacheGetNoExpiry(c, key, t) ==
  LET i == MapIndex(c, key) IN
  IF i = 0 THEN [cache |-> c, hit |-> FALSE, embedding |-> <<>>]
  ELSE [cache |-> c, hit |-> TRUE, embedding |-> c[i].embedding]

\* get(key): the cache after the call and the value returned (hit = FALSE is null)
CacheGet(c, key, t) ==
  LET i == MapIndex(c, key) IN
  IF i = 0 THEN [cache |-> c, hit |-> FALSE, embedding |-> <<>>]
  ELSE IF t - c[i].timestamp > ttl
       THEN [cache |-> MapDelete(c, key), hit |-> FALSE, embedding |-> <<>>]
       ELSE [cache |-> c, hit |-> TRUE, embedding |-> c[i].embedding]

\* the eviction step of set(): cache.keys().next().value is the first key
CacheEvict(c) ==
  IF Len(c) >= maxSize
  THEN IF Len(c) > 0 /\ Truthy(c[1].key) THEN MapDelete(c, c[1].key) ELSE c
  ELSE c

CacheSet(c, key, embedding, t) ==
  MapSet(CacheEvict(c), key, [key |-> key, embedding |-> embedding, timestamp |-> t])

\* ------------------------------------------------ BaseEmbeddingProvider
cacheEnabled == TRUE

getCacheKey(text) == provider \o ":" \o model \o ":" \o text

\* keys given to the cache: the provider's, and the empty string
CacheKeys == {""} \cup {getCacheKey(text) : text \in Texts}

NoError == [attempts |-> 0, message |-> ""]

getCachedEmbedding(c, text, t) ==
  IF ~cacheEnabled THEN [cache |-> c, hit |-> FALSE, embedding |-> <<>>]
  ELSE CacheGet(c, getCacheKey(text), t)

setCachedEmbedding(c, text, embedding, t) ==
  IF ~cacheEnabled THEN c ELSE CacheSet(c, getCacheKey(text), embedding, t)

\* ---------------------------------------------- OllamaEmbeddingProvider
\* What ollama.embed raced against the timeout timer can give for n texts:
\* a rejection, or a response with any number of embeddings.
SeqsOf(S, n) == [1..n -> S]
ProviderResponses(n) ==
  [kind : {"error"}, error : ProviderErrors, embeddings : {<<>>}]
    \cup [kind : {"embeddings"}, error : {""},
          embeddings : UNION {SeqsOf(Vectors, k) : k \in 0..(n + 1)}]

\* the answer is passed on without comparing its length to the request's
generateBatchEmbeddingsUnchecked(texts, resp) ==
  IF resp.kind = "error" THEN [ok |-> FALSE, error |-> resp.error, embeddings |-> <<>>]
  ELSE [ok |-> TRUE, error |-> "", embeddings |-> resp.embeddings]

\* generateBatchEmbeddingsInternal(texts) given the provider's answer
generateBatchEmbeddingsInternal(texts, resp) ==
  IF resp.kind = "error" THEN [ok |-> FALSE, error |-> resp.error, embeddings |-> <<>>]
  ELSE IF Len(resp.embeddings) # Len(texts)
       THEN [ok |-> FALSE, error |-> "mismatch", embeddings |-> <<>>]
       ELSE [ok |-> TRUE, error |-> "", embeddings |-> resp.embeddings]

\* the whole queue is taken: batchSize is ignored
spliceAll(q, n) == [removed |-> q, rest |-> <<>>]

\* slice instead of splice: the head is read but stays queued
spliceKeep(q, n) ==
  LET k == IF Len(q) < n THEN Len(q) ELSE n IN
  [removed |-> SubSeq(q, 1, k), rest |-> q]

\* the requests are taken from the tail of the queue
spliceTail(q, n) ==
  LET k == IF Len(q) < n THEN Len(q) ELSE n IN
  [removed |-> SubSeq(q, Len(q) - k + 1, Len(q)), rest |-> SubSeq(q, 1, Len(q) - k)]

\* Array.prototype.splice(0, n): the removed head and what stays
splice(q, n) ==
  LET k == IF Len(q) < n THEN Len(q) ELSE n IN
  [removed |-> SubSeq(q, 1, k), rest |-> SubSeq(q, k + 1, Len(q))]

\* the entry of processBatch(), up to its first await
processBatchEntry(flag, queue) ==
  IF flag \/ Len(queue) = 0 THEN 0 ELSE 1

\* generateEmbedding(text) of a provider configured with batchSize > 1 (as all
\* factory methods do): cache lookup, then generateWithBatching, which pushes
\* the request and calls processBatch()
generateEmbedding(text) ==
  /\ Len(calls) < MaxCalls
  /\ batchSize > 1
  /\ LET g == getCachedEmbedding(cache, text, now) IN
     /\ cache' = g.cache
     /\ IF g.hit
        THEN /\ calls' = Append(calls, [text |-> text, queued |-> FALSE,
                                        resolved |-> <<g.embedding>>, rejected |-> <<>>])
             /\ UNCHANGED <<batchQueue, sleepers>>
        ELSE /\ calls' = Append(calls, [text |-> text, queued |-> TRUE,
                                        resolved |-> <<>>, rejected |-> <<>>])
             /\ batchQueue' = Append(batchQueue, Len(calls) + 1)
             /\ sleepers' = sleepers + processBatchEntry(processingBatch, batchQueue')
  /\ UNCHANGED <<now, processingBatch, timers, dispatched, cacheLog, retry, rest>>

\* processBatch() resumed after sleep(50)
processBatchWake ==
  /\ sleepers > 0
  /\ sleepers' = sleepers - 1
  /\ IF Len(batchQueue) = 0
     THEN UNCHANGED <<processingBatch, batchQueue, dispatched>>
     ELSE LET s == splice(batchQueue, batchSize) IN
          /\ processingBatch' = TRUE
          /\ batchQueue' = s.rest
          /\ dispatched' = Append(dispatched,
                 [batch |-> s.removed, seen |-> Len(calls), status |-> "inflight",
                  embeddings |-> <<>>, error |-> ""])
  /\ UNCHANGED <<now, cache, calls, timers, cacheLog, retry, rest>>

\* currentBatch.forEach((item, index) => { setCachedEmbedding; item.resolve })
RECURSIVE cacheBatch(_, _, _, _, _)
cacheBatch(c, batch, embeddings, index, t) ==
  IF index > Len(batch) THEN c
  ELSE cacheBatch(setCachedEmbedding(c, calls[batch[index]].text, embeddings[index], t),
                  batch, embeddings, index + 1, t)

\* the vector is looked up by text instead of by position
resolveBatchByText(cs, batch, embeddings) ==
  [i \in 1..Len(cs) |->
     IF \E index \in 1..Len(batch) : batch[index] = i
     THEN LET first == CHOOSE index \in 1..Len(batch) :
                         /\ cs[batch[index]].text = cs[i].text
                         /\ \A j \in 1..(index - 1) : cs[batch[j]].text # cs[i].text
          IN [cs[i] EXCEPT !.resolved = Append(@, embeddings[first])]
     ELSE cs[i]]

resolveBatch(cs, batch, embeddings) ==
  [i \in 1..Len(cs) |->
     IF \E index \in 1..Len(batch) : batch[index] = i
     THEN LET index == CHOOSE index \in 1..Len(batch) : batch[index] = i
          IN [cs[i] EXCEPT !.resolved = Append(@, embeddings[index])]
     ELSE cs[i]]

\* every request that is still pending is rejected, not only the batch
rejectPending(cs, batch, error) ==
  [i \in 1..Len(cs) |->
     IF cs[i].resolved = <<>> /\ cs[i].rejected = <<>>
     THEN [cs[i] EXCEPT !.rejected = Append(@, error)]
     ELSE cs[i]]

\* currentBatch.forEach(item => item.reject(error))
rejectBatch(cs, batch, error) ==
  [i \in 1..Len(cs) |->
     IF \E index \in 1..Len(batch) : batch[index] = i
     THEN [cs[i] EXCEPT !.rejected = Append(@, error)]
     ELSE cs[i]]

\* the finally block without its reschedule
rescheduleNever(queue) == 0

\* the finally block: one more setTimeout(processBatch, 100) if requests remain
reschedule(queue) == IF Len(queue) > 0 THEN 1 ELSE 0

\* processBatch() resumed when generateBatchEmbeddingsInternal settles
processBatchReturn(d, resp) ==
  /\ dispatched[d].status = "inflight"
  /\ LET batch == dispatched[d].batch
         texts == [index \in 1..Len(batch) |-> calls[batch[index]].text]
         r == generateBatchEmbeddingsInternal(texts, resp)
     IN IF r.ok
        THEN /\ cache' = cacheBatch(cache, batch, r.embeddings, 1, now)
             /\ calls' = resolveBatch(calls, batch, r.embeddings)
             /\ dispatched' = [dispatched EXCEPT ![d].status = "ok",
                                                 ![d].embeddings = r.embeddings]
        ELSE /\ calls' = rejectBatch(calls, batch, r.error)
             /\ dispatched' = [dispatched EXCEPT ![d].status = "failed",
                                                 ![d].error = r.error]
             /\ UNCHANGED cache
  /\ processingBatch' = FALSE
  /\ timers' = timers + reschedule(batchQueue)
  /\ UNCHANGED <<now, batchQueue, sleepers, cacheLog, retry, rest>>

\* the timer set by the finally block fires: processBatch() is entered
timerFire ==
  /\ timers > 0
  /\ timers' = timers - 1
  /\ sleepers' = sleepers + processBatchEntry(processingBatch, batchQueue)
  /\ UNCHANGED <<now, cache, calls, batchQueue, processingBatch, dispatched, cacheLog, retry, rest>>

\* time passes
Tick ==
  /\ now < MaxNow
  /\ now' = now + 1
  /\ UNCHANGED <<cache, cacheLog, coalescer, retry, rest>>

InitClock == now = 0 /\ cache = <<>>

InitCacheLog ==
  /\ lastOp = [op |-> "none", key |-> "", at |-> 0, hit |-> FALSE, embedding |-> <<>>,
               before |-> <<>>]
  /\ lastSet = [k \in CacheKeys |-> [at |-> -1, embedding |-> <<>>]]

InitCoalescer ==
  /\ calls = <<>>
  /\ batchQueue = <<>>
  /\ processingBatch = FALSE
  /\ sleepers = 0
  /\ timers = 0
  /\ dispatched = <<>>

RetryIdle ==
  [pc |-> "idle", maxRetries |-> 0, baseDelay |-> 0, attempt |-> 0, lastError |-> "",
   outcomes |-> <<>>, sleeps |-> <<>>, opCalls |-> 0, result |-> <<>>, thrown |-> NoError]

BatchIdle ==
  [pc |-> "idle", texts |-> <<>>, i |-> 0, results |-> <<>>, returned |-> <<>>,
   thrown |-> NoError]

InitBatch ==
  /\ batchCall = BatchIdle
  /\ embedLog = <<>>

\* storedUnder remembers, per memory and config.model, the vector last stored
\* by a provider with that configuration and not deleted since
NotEmbedded == [memory |-> "", ok |-> FALSE, embedding |-> <<>>, storedUnder |-> {}]

InitStoring ==
  /\ configModel = <<model>>
  /\ memory_embeddings = {}
  /\ embedded = NotEmbedded

NotSearched ==
  [called |-> FALSE, queryEmbedding |-> <<>>, limit |-> 0, minSimilarity |-> 0,
   category |-> "", results |-> <<>>]

NotHybridSearched ==
  [called |-> FALSE, queryEmbedding |-> <<>>, limit |-> 0, minSimilarity |-> 0,
   textWeight |-> 0, semanticWeight |-> 0, boostRecentMemories |-> FALSE,
   results |-> <<>>]

InitSearching ==
  /\ memories = <<>>
  /\ searched = NotSearched
  /\ textIndex = <<>>
  /\ hybridSearched = NotHybridSearched

\* a MemoryService constructed with enableEmbeddings unset
ServiceOff ==
  [enableEmbeddings |-> FALSE, pc |-> "constructed", embeddingProvider |-> FALSE,
   semanticSearchService |-> FALSE]

NoProbe == [embed |-> "none", timer |-> "none", first |-> "", returned |-> <<>>,
            threw |-> FALSE]

NotServed == [called |-> FALSE, limit |-> 0, enabled |-> FALSE, embeddingFailed |-> FALSE,
              threw |-> FALSE, results |-> <<>>]

InitServing ==
  /\ service = ServiceOff
  /\ probe = NoProbe
  /\ served = NotServed

NotSimilar ==
  [called |-> FALSE, memory_id |-> 0, limit |-> 0, minSimilarity |-> 0, category |-> "",
   threw |-> "", results |-> <<>>, isError |-> FALSE, afterError |-> FALSE]

NotClustered == [called |-> FALSE, threshold |-> 0, minClusterSize |-> 0, clusters |-> <<>>]

InitAnalysing ==
  /\ similar = NotSimilar
  /\ clustered = NotClustered

NotWritten ==
  [pc |-> "idle", op |-> "", id |-> 0, record |-> <<>>, regenerate |-> FALSE,
   outcome |-> "", returned |-> <<>>, threw |-> FALSE, persisted |-> <<>>,
   rowsBefore |-> {}]

BackfillIdle ==
  [pc |-> "idle", missingEmbeddings |-> <<>>, i |-> 0, j |-> 0, trace |-> <<>>,
   threw |-> FALSE, rowsBefore |-> {}]

InitMaintaining ==
  /\ written = NotWritten
  /\ backfill = BackfillIdle

NoProviders ==
  [config |-> <<[provider |-> provider, model |-> model], [provider |-> provider, model |-> model]>>,
   cache |-> <<<<>>, <<>>>>,
   last |-> [instance |-> 0, text |-> "", hit |-> FALSE, embedding |-> <<>>]]

InitIsolating == providers = NoProviders

NoToolCall == [tool |-> "", given |-> <<>>, applied |-> <<>>, defaults |-> <<>>]

InitCalling == toolCall = NoToolCall

NothingInflight == [pending |-> <<>>, failed |-> FALSE, deleted |-> {}, refused |-> {}]

InitRacing == inflight = NothingInflight

InitRest ==
  InitBatch /\ InitStoring /\ InitSearching /\ InitServing /\ InitAnalysing /\ InitMaintaining /\ InitIsolating /\ InitCalling /\ InitRacing

Init == InitClock /\ InitCacheLog /\ InitCoalescer /\ retry = RetryIdle /\ InitRest

ProviderReturns ==
  \E d \in 1..Len(dispatched) :
    \E resp \in ProviderResponses(Len(dispatched[d].batch)) : processBatchReturn(d, resp)

Next ==
  \/ \E text \in Texts : generateEmbedding(text)
  \/ processBatchWake
  \/ ProviderReturns
  \/ timerFire
  \/ Tick

\* the provider with its cache and coalescer (batchSize > 1)
Spec == Init /\ [][Next]_vars

\* timers fire and every provider call returns or fails
FairSpec ==
  Spec /\ WF_vars(processBatchWake) /\ WF_vars(timerFire) /\ WF_vars(ProviderReturns)

\* ----------------------------------------- MemoryEmbeddingCache used directly
cacheSet(key, embedding) ==
  /\ cache' = CacheSet(cache, key, embedding, now)
  /\ lastOp' = [op |-> "set", key |-> key, at |-> now, hit |-> FALSE,
                embedding |-> embedding, before |-> cache]
  /\ lastSet' = [lastSet EXCEPT ![key] = [at |-> now, embedding |-> embedding]]
  /\ UNCHANGED <<now, coalescer, retry, rest>>

cacheGet(key) ==
  /\ LET g == CacheGet(cache, key, now) IN
     /\ cache' = g.cache
     /\ lastOp' = [op |-> "get", key |-> key, at |-> now, hit |-> g.hit,
                   embedding |-> g.embedding, before |-> cache]
  /\ UNCHANGED <<now, lastSet, coalescer, retry, rest>>

cacheClear ==
  /\ cache' = <<>>
  /\ lastOp' = [op |-> "clear", key |-> "", at |-> now, hit |-> FALSE,
                embedding |-> <<>>, before |-> cache]
  /\ UNCHANGED <<now, lastSet, coalescer, retry, rest>>

cacheSize == Len(cache)

CacheNext ==
  \/ \E key \in CacheKeys, embedding \in Vectors : cacheSet(key, embedding)
  \/ \E key \in CacheKeys : cacheGet(key)
  \/ cacheClear
  \/ Tick

CacheSpec == Init /\ [][CacheNext]_vars

\* ------------------------------- BaseEmbeddingProvider.retryWithBackoff
\* what one invocation of operation() can do
OperationOutcomes ==
  [ok : {TRUE}, value : Vectors, error : {""}]
    \cup [ok : {FALSE}, value : {<<>>}, error : ProviderErrors \cup {"mismatch"}]

RECURSIVE Pow2(_)
Pow2(n) == IF n <= 0 THEN 1 ELSE 2 * Pow2(n - 1)

Min(a, b) == IF a < b THEN a ELSE b

\* the delay without its upper limit
backoffDelayUncapped(baseDelay, attempt) == baseDelay * Pow2(attempt - 1)

\* Math.min(baseDelay * Math.pow(2, attempt - 1), 10000)
backoffDelay(baseDelay, attempt) == Min(baseDelay * Pow2(attempt - 1), MaxDelay)

\* only the first error is kept
catchErrorFirst(lastError, error) == IF lastError = "" THEN error ELSE lastError

\* lastError = error as Error
catchError(lastError, error) == error

\* if (attempt === maxRetries) break
exhausted(attempt, m) == attempt = m

\* new Error(`Operation failed after ${maxRetries} attempts: ${lastError.message}`)
wrapError(m, lastError) == [attempts |-> m, message |-> lastError]

\* entry of retryWithBackoff(operation, m, b): attempt = 1, operation() is invoked
retryEnter(m, b) ==
  [RetryIdle EXCEPT !.pc = "awaiting", !.maxRetries = m, !.baseDelay = b,
                    !.attempt = 1, !.opCalls = 1]

\* await operation() settles: return, or catch and either break and throw or sleep
retrySettle(r, outcome) ==
  LET traced == [r EXCEPT !.outcomes = Append(@, outcome)] IN
  IF outcome.ok
  THEN [traced EXCEPT !.pc = "returned", !.result = <<outcome.value>>]
  ELSE LET err == catchError(r.lastError, outcome.error) IN
       IF exhausted(r.attempt, r.maxRetries)
       THEN [traced EXCEPT !.pc = "thrown", !.lastError = err,
                           !.thrown = wrapError(r.maxRetries, err)]
       ELSE [traced EXCEPT !.pc = "sleeping", !.lastError = err,
                           !.sleeps = Append(@, backoffDelay(r.baseDelay, r.attempt))]

\* await this.sleep(delay) is over: attempt++, and operation() is invoked again
retryResume(r) == [r EXCEPT !.pc = "awaiting", !.attempt = @ + 1, !.opCalls = @ + 1]

\* retryWithBackoff(operation, m, b) is called
retryWithBackoff(m, b) ==
  /\ retry.pc = "idle"
  /\ retry' = retryEnter(m, b)
  /\ UNCHANGED <<now, cache, cacheLog, coalescer, rest>>

\* await operation() settles: return, or catch and either break and throw or sleep
retryOperationSettles(outcome) ==
  /\ retry.pc = "awaiting"
  /\ retry' = retrySettle(retry, outcome)
  /\ UNCHANGED <<now, cache, cacheLog, coalescer, rest>>

\* await this.sleep(delay) is over: attempt++, and operation() is invoked again
retrySleepDone ==
  /\ retry.pc = "sleeping"
  /\ retry.attempt + 1 <= retry.maxRetries
  /\ retry' = retryResume(retry)
  /\ UNCHANGED <<now, cache, cacheLog, coalescer, rest>>

RetryNext ==
  \/ \E m \in 1..MaxAttempts, b \in BaseDelays : retryWithBackoff(m, b)
  \/ \E outcome \in OperationOutcomes : retryOperationSettles(outcome)
  \/ retrySleepDone

RetrySpec == Init /\ [][RetryNext]_vars

\* ---------------------------- OllamaEmbeddingProvider.generateBatchEmbeddings
BatchInputs == UNION {SeqsOf(Texts, n) : n \in 0..MaxBatchTexts}

\* texts.slice(i, i + n), i counted from 0
slice(texts, i, n) == SubSeq(texts, i + 1, Min(i + n, Len(texts)))

\* generateBatchEmbeddings(texts) is called and runs to its first await: the
\* first chunk is handed to retryWithBackoff, or the empty result is returned
generateBatchEmbeddings(texts) ==
  /\ batchCall.pc = "idle"
  /\ IF 0 < Len(texts)
     THEN /\ batchCall' = [BatchIdle EXCEPT !.pc = "running", !.texts = texts]
          /\ retry' = retryEnter(maxRetries, baseDelayDefault)
     ELSE /\ batchCall' = [BatchIdle EXCEPT !.pc = "returned", !.texts = texts]
          /\ UNCHANGED retry
  /\ UNCHANGED <<now, cache, cacheLog, coalescer, embedLog, storing, searching, serving, analysing, maintaining, isolating, calling, racing>>

\* ollama.embed answers the request of the running attempt; retryWithBackoff
\* returns the chunk's vectors to the loop, sleeps before another attempt, or
\* throws out of generateBatchEmbeddings
batchProviderReturns(resp) ==
  /\ batchCall.pc = "running"
  /\ retry.pc = "awaiting"
  /\ LET batch == slice(batchCall.texts, batchCall.i, batchSize)
         out == generateBatchEmbeddingsInternal(batch, resp)
         r == retrySettle(retry, [ok |-> out.ok, value |-> out.embeddings,
                                  error |-> out.error])
     IN /\ embedLog' = Append(embedLog, [i |-> batchCall.i, texts |-> batch,
                                         count |-> Len(resp.embeddings),
                                         error |-> out.error,
                                         embeddings |-> out.embeddings])
        /\ IF r.pc = "returned"
           THEN LET results == batchCall.results \o r.result[1]
                    i == batchCall.i + batchSize
                IN IF i < Len(batchCall.texts)
                   THEN /\ batchCall' = [batchCall EXCEPT !.i = i, !.results = results]
                        /\ retry' = retryEnter(maxRetries, baseDelayDefault)
                   ELSE /\ batchCall' = [batchCall EXCEPT !.pc = "returned", !.i = i,
                                            !.results = results, !.returned = results]
                        /\ retry' = r
           ELSE IF r.pc = "thrown"
                THEN /\ batchCall' = [batchCall EXCEPT !.pc = "thrown", !.thrown = r.thrown]
                     /\ retry' = r
                ELSE /\ retry' = r
                     /\ UNCHANGED batchCall
  /\ UNCHANGED <<now, cache, cacheLog, coalescer, storing, searching, serving, analysing, maintaining, isolating, calling, racing>>

\* the sleep between two attempts on a chunk is over
batchSleepDone ==
  /\ batchCall.pc = "running"
  /\ retry.pc = "sleeping"
  /\ retry' = retryResume(retry)
  /\ UNCHANGED <<now, cache, cacheLog, coalescer, rest>>

BatchProviderReturns ==
  \E resp \in ProviderResponses(Len(slice(batchCall.texts, batchCall.i, batchSize))) :
    batchProviderReturns(resp)

BatchNext ==
  \/ \E texts \in BatchInputs : generateBatchEmbeddings(texts)
  \/ BatchProviderReturns
  \/ batchSleepDone

BatchSpec == Init /\ [][BatchNext]_vars

\* ------------------- dimensions: OLLAMA_MODELS and generateAndStoreEmbedding
OLLAMA_MODELS ==
  ("mxbai-embed-large" :> [dimensions |-> 1024])
    @@ ("nomic-embed-text" :> [dimensions |-> 768])
    @@ ("all-minilm" :> [dimensions |-> 384])

\* A string that may hold colons is kept as its tokens, ":" being one of
\* them and every piece between two colons being one token: the model
\* nomic-embed-text:latest is <<"nomic-embed-text", ":", "latest">>.
\* this.modelInfo = OLLAMA_MODELS[config.model] || { dimensions: 1024, ... }
modelInfo(m) ==
  IF Len(m) = 1 /\ m[1] \in DOMAIN OLLAMA_MODELS THEN OLLAMA_MODELS[m[1]]
  ELSE [dimensions |-> 1024]

\* get dimensions()
dimensions == modelInfo(configModel).dimensions

\* get name(): `ollama:${this.config.model}`
nameOf(m) == <<provider, ":">> \o m
name == nameOf(configModel)

\* s.split(':'): the pieces between the colons
RECURSIVE split(_)
split(s) ==
  IF Len(s) = 0 THEN <<"">>
  ELSE LET front == split(SubSeq(s, 1, Len(s) - 1)) IN
       IF s[Len(s)] = ":" THEN Append(front, "")
       ELSE [front EXCEPT ![Len(front)] = s[Len(s)]]

\* this.embeddingProvider.name.split(':')[0] and [1]
nameProvider == split(name)[1]
nameModel == split(name)[2]

\* the models a provider is constructed with: the known ones, another one,
\* and a known one with a tag
ConfiguredModels ==
  {<<m>> : m \in DOMAIN OLLAMA_MODELS \cup {model}}
    \cup {<<"nomic-embed-text", ":", "latest">>, <<"nomic-embed-text", ":", "v1.5">>}

MemoryIds == {"m1", "m2"}

\* the vectors Ollama answers with, told apart by their length only
ZeroVector(n) == [i \in 1..n |-> 0]
VectorLengths == {modelInfo(m).dimensions : m \in ConfiguredModels}
EmbeddingOutcomes ==
  [ok : {TRUE}, embedding : {ZeroVector(n) : n \in VectorLengths}]
    \cup [ok : {FALSE}, embedding : {<<>>}]

\* INSERT OR REPLACE INTO memory_embeddings ... PRIMARY KEY (memory_id, provider, model)
storeEmbedding(table, memoryId, embedding, p, m, dims) ==
  {row \in table : ~(row.memory_id = memoryId /\ row.provider = p /\ row.model = m)}
    \cup {[memory_id |-> memoryId, embedding |-> embedding, provider |-> p, model |-> m,
           dimensions |-> dims]}

\* generateAndStoreEmbedding(memory): generateEmbedding(memory.content) gives
\* the provider's vector as it came (coalesced, direct or cached) or throws;
\* the vector is stored with the provider's dimensions
generateAndStoreEmbedding(memoryId, outcome) ==
  /\ embedded' =
       [memory |-> memoryId, ok |-> outcome.ok, embedding |-> outcome.embedding,
        storedUnder |->
          IF outcome.ok
          THEN {g \in embedded.storedUnder : ~(g.memory = memoryId /\ g.config = configModel)}
                 \cup {[memory |-> memoryId, config |-> configModel,
                        embedding |-> outcome.embedding]}
          ELSE embedded.storedUnder]
  /\ memory_embeddings' =
       IF outcome.ok
       THEN storeEmbedding(memory_embeddings, memoryId, outcome.embedding, nameProvider,
                           nameModel, dimensions)
       ELSE memory_embeddings
  /\ UNCHANGED <<acquisition, batching, configModel, searching, serving, analysing, maintaining, isolating, calling, racing>>

\* deleteEmbeddings(memoryId): DELETE FROM memory_embeddings WHERE memory_id = ?
deleteEmbeddings(memoryId) ==
  /\ memory_embeddings' = {row \in memory_embeddings : row.memory_id # memoryId}
  /\ embedded' = [embedded EXCEPT !.storedUnder = {g \in @ : g.memory # memoryId}]
  /\ UNCHANGED <<acquisition, batching, configModel, searching, serving, analysing, maintaining, isolating, calling, racing>>

StoringInit ==
  /\ InitClock /\ InitCacheLog /\ InitCoalescer /\ retry = RetryIdle /\ InitBatch
  /\ InitAnalysing /\ InitMaintaining /\ InitIsolating /\ InitCalling /\ InitRacing
  /\ InitSearching /\ InitServing
  /\ configModel \in ConfiguredModels
  /\ memory_embeddings = {}
  /\ embedded = NotEmbedded

StoringNext ==
  \/ \E memoryId \in MemoryIds, outcome \in EmbeddingOutcomes :
       generateAndStoreEmbedding(memoryId, outcome)
  \/ \E memoryId \in MemoryIds : deleteEmbeddings(memoryId)

StoringSpec == StoringInit /\ [][StoringNext]_vars

\* ------------------------------- one database under several configurations
\* a provider is constructed with another config.model over the same database
reconfigure(m) ==
  /\ configModel # m
  /\ configModel' = m
  /\ UNCHANGED <<acquisition, batching, memory_embeddings, embedded, searching, serving,
                 analysing, maintaining, isolating, calling, racing>>

\* model names with and without a tag
KeyModels ==
  {<<model>>, <<"nomic-embed-text">>, <<"nomic-embed-text", ":", "latest">>,
   <<"nomic-embed-text", ":", "v1.5">>}

KeyMemoryIds == {"m1"}

KeyOutcomes == [ok : {TRUE}, embedding : Vectors] \cup [ok : {FALSE}, embedding : {<<>>}]

KeyInit ==
  /\ InitClock /\ InitCacheLog /\ InitCoalescer /\ retry = RetryIdle /\ InitBatch
  /\ InitAnalysing /\ InitMaintaining /\ InitIsolating /\ InitCalling /\ InitRacing
  /\ InitSearching /\ InitServing
  /\ configModel \in KeyModels
  /\ memory_embeddings = {}
  /\ embedded = NotEmbedded

KeyNext ==
  \/ \E memoryId \in KeyMemoryIds, outcome \in KeyOutcomes :
       generateAndStoreEmbedding(memoryId, outcome)
  \/ \E memoryId \in KeyMemoryIds : deleteEmbeddings(memoryId)
  \/ \E m \in KeyModels : reconfigure(m)

KeySpec == KeyInit /\ [][KeyNext]_vars

\* ---------------------------------------- SemanticSearchService.searchSimilar
\* Scores are kept in hundredths: 70 is 0.7. The stored vectors have integer
\* entries and norm 5 or 0, so every cosine below is an exact number of
\* hundredths, and float32 storage gives the entries back unchanged.
Categories == {"facts", "goals"}
NoCategory == ""                          \* options.category left undefined
otherModel == "other"                     \* rows written by another provider
SearchVectors == {<<5, 0>>, <<4, 3>>, <<3, 4>>, <<0, 0>>}
QueryVectors == {<<5, 0>>, <<4, 3>>}
Limits == {1, 2, 10}                      \* limit (10 by default)
MinSimilarities == {60, 70}               \* minSimilarity (0.7 by default)

RECURSIVE DotFrom(_, _, _)
DotFrom(a, b, i) == IF i > Len(a) THEN 0 ELSE a[i] * b[i] + DotFrom(a, b, i + 1)

\* Math.sqrt of a perfect square
Sqrt(n) == CHOOSE r \in 0..n : r * r <= n /\ (r + 1) * (r + 1) > n

\* cos-similarity: dot / (|a| * |b|); 0 / 0 is NaN
similarity(a, b) ==
  LET norms == Sqrt(DotFrom(a, a, 1)) * Sqrt(DotFrom(b, b, 1)) IN
  IF norms = 0 THEN [nan |-> TRUE, v |-> 0]
  ELSE [nan |-> FALSE, v |-> (100 * DotFrom(a, b, 1)) \div norms]

\* x >= y on numbers: false when x is NaN
GreaterEq(x, y) == ~x.nan /\ x.v >= y

\* the comparator (a, b) => b.score - a.score on two scores; NaN counts as 0
compare(a, b) == IF a.nan \/ b.nan THEN 0 ELSE b.v - a.v

\* the positions of scores in the order a stable sort with the comparator
\* gives: a score goes behind every earlier one that need not come after it
RECURSIVE sortedPositions(_)
sortedPositions(scores) ==
  IF Len(scores) = 0 THEN <<>>
  ELSE LET n == Len(scores)
           sorted == sortedPositions(SubSeq(scores, 1, n - 1))
           k == Cardinality({i \in 1..(n - 1) : compare(scores[sorted[i]], scores[n]) <= 0})
       IN SubSeq(sorted, 1, k) \o <<n>> \o SubSeq(sorted, k + 1, n - 1)

\* the array is returned as it is
sortNot(items, scores) == items

\* equal elements end up in reverse order
sortTiesReversed(items, scores) ==
  LET n == Len(items)
      reversed == sortedPositions([i \in 1..n |-> scores[n + 1 - i]])
  IN [i \in 1..n |-> items[n + 1 - reversed[i]]]

\* Array.prototype.sort of items by their scores with the comparator above
sort(items, scores) ==
  LET positions == sortedPositions(scores) IN
  [i \in 1..Len(items) |-> items[positions[i]]]

\* ORDER BY m.updated_at DESC over the given rowids
RECURSIVE OrderByUpdatedAtDesc(_, _)
OrderByUpdatedAtDesc(mems, ids) ==
  IF ids = {} THEN <<>>
  ELSE LET first == CHOOSE k \in ids : \A j \in ids :
                      \/ mems[k].updated_at > mems[j].updated_at
                      \/ (mems[k].updated_at = mems[j].updated_at /\ k <= j)
       IN <<first>> \o OrderByUpdatedAtDesc(mems, ids \ {first})

\* getMemoriesWithEmbeddings(provider, model): memories JOIN memory_embeddings
\* WHERE e.provider = ? AND e.model = ? ORDER BY m.updated_at DESC
getMemoriesWithEmbeddings(mems, rows, p, m) ==
  LET joined == {k \in 1..Len(mems) :
                   \E row \in rows : row.memory_id = k /\ row.provider = p /\ row.model = m}
      ordered == OrderByUpdatedAtDesc(mems, joined)
  IN [i \in 1..Len(ordered) |->
        [memory |-> mems[ordered[i]],
         embedding |-> (CHOOSE row \in rows : row.memory_id = ordered[i]
                                               /\ row.provider = p /\ row.model = m).embedding]]

\* array.slice(0, n)
sliceTo(items, n) == SubSeq(items, 1, Min(n, Len(items)))

\* searchSimilar(query, {limit, minSimilarity, category}) once the query
\* embedding has been generated
searchSimilar(queryEmbedding, limit, minSimilarity, category, mems, rows) ==
  LET memoriesWithEmbeddings == getMemoriesWithEmbeddings(mems, rows, nameProvider, nameModel)
      filteredMemories ==
        IF Truthy(category)
        THEN SelectSeq(memoriesWithEmbeddings, LAMBDA item : item.memory.category = category)
        ELSE memoriesWithEmbeddings
      scored == [i \in 1..Len(filteredMemories) |->
                   [memory |-> filteredMemories[i].memory,
                    similarity |-> similarity(queryEmbedding, filteredMemories[i].embedding)]]
      kept == SelectSeq(scored, LAMBDA result : GreaterEq(result.similarity, minSimilarity))
  IN sliceTo(sort(kept, [i \in 1..Len(kept) |-> kept[i].similarity]), limit)

\* the one call of searchSimilar in a behaviour, its query embedding generated
searchSimilarReturns(queryEmbedding, limit, minSimilarity, category) ==
  /\ ~searched.called
  /\ searched' = [called |-> TRUE, queryEmbedding |-> queryEmbedding, limit |-> limit,
                  minSimilarity |-> minSimilarity, category |-> category,
                  results |-> searchSimilar(queryEmbedding, limit, minSimilarity, category,
                                            memories, memory_embeddings)]
  /\ UNCHANGED <<acquisition, batching, storing, memories, textIndex, hybridSearched, serving, analysing, maintaining, isolating, calling, racing>>

\* what the tables can hold: three memories, each in a category, with distinct
\* update times, each without a vector, with a vector of another model, or
\* with a vector of the active model
Permutations3 == {<<1, 2, 3>>, <<1, 3, 2>>, <<2, 1, 3>>, <<2, 3, 1>>, <<3, 1, 2>>, <<3, 2, 1>>}

MemoryTables ==
  {[k \in 1..3 |-> [id |-> k, category |-> c[k], updated_at |-> u[k]]] :
     c \in [1..3 -> Categories], u \in Permutations3}

EmbeddingRow(k, e, m) ==
  [memory_id |-> k, embedding |-> e, provider |-> provider, model |-> m,
   dimensions |-> Len(e)]

RowChoices(k) ==
  {{}} \cup {{EmbeddingRow(k, <<5, 0>>, otherModel)}}
       \cup {{EmbeddingRow(k, e, model)} : e \in SearchVectors}

EmbeddingTables == {r[1] \cup r[2] \cup r[3] : r \in RowChoices(1) \X RowChoices(2) \X RowChoices(3)}

SearchInit ==
  /\ InitClock /\ InitCacheLog /\ InitCoalescer /\ retry = RetryIdle /\ InitBatch
  /\ InitAnalysing /\ InitMaintaining /\ InitIsolating /\ InitCalling /\ InitRacing
  /\ InitServing
  /\ configModel = <<model>>
  /\ embedded = NotEmbedded
  /\ memories \in MemoryTables
  /\ memory_embeddings \in EmbeddingTables
  /\ searched = NotSearched
  /\ textIndex = <<>>
  /\ hybridSearched = NotHybridSearched

SearchNext ==
  \E queryEmbedding \in QueryVectors, limit \in Limits, minSimilarity \in MinSimilarities,
     category \in {NoCategory, "facts"} :
    searchSimilarReturns(queryEmbedding, limit, minSimilarity, category)

SearchSpec == SearchInit /\ [][SearchNext]_vars

\* ----------------------------------------- SemanticSearchService.hybridSearch
\* Time is counted in whole days. Weights are hundredths like the scores. A
\* combined score is kept as its exact value times 30000 * N, N being the
\* number of text results (1 if there are none), so that no division occurs.
Today == 60                               \* Date.now(), in days

\* db.searchMemories(query, limit): the ranked matches, LIMIT ?
searchMemories(mems, ranking, limit) ==
  [i \in 1..Min(limit, Len(ranking)) |-> mems[ranking[i]]]

\* the array with its duplicates
newArray(ids) == ids

\* new Set(ids) read back with Array.from: first occurrences, in order
RECURSIVE newSet(_)
newSet(ids) ==
  IF Len(ids) = 0 THEN <<>>
  ELSE LET front == newSet(SubSeq(ids, 1, Len(ids) - 1)) IN
       IF \E i \in 1..Len(front) : front[i] = ids[Len(ids)] THEN front
       ELSE Append(front, ids[Len(ids)])

\* array.findIndex(r => r.id === id) + 1, or 0
PositionOf(ids, id) ==
  IF \E i \in 1..Len(ids) : ids[i] = id
  THEN CHOOSE i \in 1..Len(ids) : ids[i] = id /\ \A j \in 1..(i - 1) : ids[j] # id
  ELSE 0

\* Math.max(0, 1 - daysSinceUpdate / 30) * 0.1, times 3000
recencyBoost(dateNow, updated_at) ==
  IF 30 - (dateNow - updated_at) > 0 THEN 10 * (30 - (dateNow - updated_at)) ELSE 0

\* combinedScore >= 0.1
atLeastThreshold(combinedScore, scale) == 10 * combinedScore >= scale

\* combinedScore > 0.1
aboveThreshold(combinedScore, scale) == 10 * combinedScore > scale

\* Array.from(allMemoryIds).map(...).filter(...).sort(...).slice(0, limit) over
\* the two candidate lists
hybridResults(semanticResults, textResults, limit, textWeight, semanticWeight, boostRecentMemories, dateNow) ==
  LET semanticIds == [i \in 1..Len(semanticResults) |-> semanticResults[i].memory.id]
      textIds == [i \in 1..Len(textResults) |-> textResults[i].id]
      N == Len(textResults)
      scale == 30000 * (IF N = 0 THEN 1 ELSE N)
      allMemoryIds == newSet(semanticIds \o textIds)
      scoreOf(memoryId) ==
        LET s == PositionOf(semanticIds, memoryId)
            t == PositionOf(textIds, memoryId)
            semanticScore == IF s = 0 THEN 0 ELSE semanticResults[s].similarity.v
            textScore == IF t = 0 THEN 0 ELSE N - (t - 1)
            memory == IF s # 0 THEN semanticResults[s].memory ELSE textResults[t]
            weighted == (scale \div 10000) * semanticScore * semanticWeight
                          + 300 * textScore * textWeight
            boost == IF boostRecentMemories
                     THEN (scale \div 3000) * recencyBoost(dateNow, memory.updated_at)
                     ELSE 0
        IN [memory |-> memory, similarity |-> semanticScore,
            textScore |-> [num |-> textScore, den |-> N],
            combinedScore |-> weighted + boost, scale |-> scale]
      mapped == [i \in 1..Len(allMemoryIds) |-> scoreOf(allMemoryIds[i])]
      kept == SelectSeq(mapped, LAMBDA result : aboveThreshold(result.combinedScore, scale))
  IN sliceTo(sort(kept, [i \in 1..Len(kept) |-> [nan |-> FALSE, v |-> kept[i].combinedScore]]),
             limit)

\* hybridSearch(query, options) once the query embedding has been generated:
\* twice the limit of candidates from each search, the semantic threshold
\* lowered to 0.8 of minSimilarity
hybridSearch(queryEmbedding, limit, minSimilarity, category, textWeight, semanticWeight, boostRecentMemories, dateNow, mems, rows, ranking) ==
  hybridResults(searchSimilar(queryEmbedding, limit * 2, (minSimilarity * 8) \div 10,
                              category, mems, rows),
                searchMemories(mems, ranking, limit * 2),
                limit, textWeight, semanticWeight, boostRecentMemories, dateNow)

\* the one call of hybridSearch in a behaviour, its query embedding generated
hybridSearchReturns(queryEmbedding, limit, minSimilarity, weights, boostRecentMemories) ==
  /\ ~hybridSearched.called
  /\ hybridSearched' =
       [called |-> TRUE, queryEmbedding |-> queryEmbedding, limit |-> limit,
        minSimilarity |-> minSimilarity, textWeight |-> weights.text,
        semanticWeight |-> weights.semantic, boostRecentMemories |-> boostRecentMemories,
        results |-> hybridSearch(queryEmbedding, limit, minSimilarity, NoCategory,
                                 weights.text, weights.semantic, boostRecentMemories, Today,
                                 memories, memory_embeddings, textIndex)]
  /\ UNCHANGED <<acquisition, batching, storing, memories, searched, textIndex, serving, analysing, maintaining, isolating, calling, racing>>

\* MaxLexical memories, updated 30 + k days ago or 3 * (k - 1) days ago
HybridMemoryTables ==
  {[k \in 1..MaxLexical |-> [id |-> k, category |-> "facts", updated_at |-> Today - (30 + k)]],
   [k \in 1..MaxLexical |-> [id |-> k, category |-> "facts",
                              updated_at |-> Today - 3 * (k - 1)]]}

\* memories 1 and 2 with or without a vector, memory 3 with one, the others without
HybridEmbeddingTables ==
  {r[1] \cup r[2] \cup {EmbeddingRow(3, <<3, 4>>, model)} :
     r \in (RowChoices(1) \ {{EmbeddingRow(1, <<0, 0>>, model)}})
            \X (RowChoices(2) \ {{EmbeddingRow(2, <<0, 0>>, model)}})}

\* rankings of the full-text index: every ordering of some of the memories
\* 1, 2 and 4, and the first n memories in rowid order
TextRankings ==
  {q \in UNION {[1..n -> {1, 2, 4}] : n \in 0..3} :
     \A i, j \in 1..Len(q) : i # j => q[i] # q[j]}
    \cup {[i \in 1..n |-> i] : n \in 4..MaxLexical}

\* textWeight and semanticWeight (0.3 and 0.7 by default)
Weights == {[text |-> 30, semantic |-> 70], [text |-> 100, semantic |-> 0],
            [text |-> 0, semantic |-> 100]}

HybridInit ==
  /\ InitClock /\ InitCacheLog /\ InitCoalescer /\ retry = RetryIdle /\ InitBatch
  /\ InitAnalysing /\ InitMaintaining /\ InitIsolating /\ InitCalling /\ InitRacing
  /\ InitServing
  /\ configModel = <<model>>
  /\ embedded = NotEmbedded
  /\ memories \in HybridMemoryTables
  /\ memory_embeddings \in HybridEmbeddingTables
  /\ searched = NotSearched
  /\ textIndex \in TextRankings
  /\ hybridSearched = NotHybridSearched

HybridNext ==
  \E limit \in Limits, minSimilarity \in {50, 90}, weights \in Weights,
     boostRecentMemories \in BOOLEAN :
    hybridSearchReturns(<<5, 0>>, limit, minSimilarity, weights, boostRecentMemories)

HybridSpec == HybridInit /\ [][HybridNext]_vars

\* ----------------------------------- hybridSearch with a category given
\* the one call of hybridSearch(query, {limit, category}) in a behaviour,
\* with the default weights, threshold and recency boost
hybridSearchInCategory(queryEmbedding, limit, category) ==
  /\ ~hybridSearched.called
  /\ hybridSearched' =
       [called |-> TRUE, queryEmbedding |-> queryEmbedding, limit |-> limit,
        minSimilarity |-> 50, textWeight |-> 30, semanticWeight |-> 70,
        boostRecentMemories |-> TRUE, category |-> category,
        results |-> hybridSearch(queryEmbedding, limit, 50, category, 30, 70, TRUE, Today,
                                 memories, memory_embeddings, textIndex)]
  /\ UNCHANGED <<acquisition, batching, storing, memories, searched, textIndex, serving, analysing, maintaining, isolating, calling, racing>>

\* three memories of any categories, updated one, two and three days ago
CategoryMemoryTables ==
  {[k \in 1..3 |-> [id |-> k, category |-> c[k], updated_at |-> Today - k]] :
     c \in [1..3 -> Categories]}

\* each memory with or without a vector of the active model
CategoryEmbeddingTables ==
  SUBSET {EmbeddingRow(1, <<5, 0>>, model), EmbeddingRow(2, <<4, 3>>, model),
          EmbeddingRow(3, <<3, 4>>, model)}

\* rankings of the full-text index: every ordering of some of the memories
CategoryTextRankings ==
  {q \in UNION {[1..n -> 1..3] : n \in 0..3} :
     \A i, j \in 1..Len(q) : i # j => q[i] # q[j]}

CategoryInit ==
  /\ InitClock /\ InitCacheLog /\ InitCoalescer /\ retry = RetryIdle /\ InitBatch
  /\ InitAnalysing /\ InitMaintaining /\ InitIsolating /\ InitCalling /\ InitRacing
  /\ InitServing
  /\ configModel = <<model>>
  /\ embedded = NotEmbedded
  /\ memories \in CategoryMemoryTables
  /\ memory_embeddings \in CategoryEmbeddingTables
  /\ searched = NotSearched
  /\ textIndex \in CategoryTextRankings
  /\ hybridSearched = NotHybridSearched

CategoryNext ==
  \E limit \in {1, 10}, category \in Categories :
    hybridSearchInCategory(<<5, 0>>, limit, category)

CategorySpec == CategoryInit /\ [][CategoryNext]_vars

\* ------------------------------------------------------------ MemoryService
\* isAvailable() when the race is lost: the rejection is passed on
isAvailableRethrows(raceFulfilled) ==
  IF raceFulfilled THEN [returned |-> <<TRUE>>, threw |-> FALSE]
  ELSE [returned |-> <<>>, threw |-> TRUE]

\* isAvailable(): try { await Promise.race([...]); return true } catch { return false }
isAvailable(raceFulfilled) ==
  IF raceFulfilled THEN [returned |-> <<TRUE>>, threw |-> FALSE]
  ELSE [returned |-> <<FALSE>>, threw |-> FALSE]

\* initializeEmbeddings() that leaves the service unset when the provider
\* answers the probe
initializeEmbeddingsGivesUp(svc, available) ==
  [svc EXCEPT !.pc = "unavailable", !.embeddingProvider = FALSE]

\* initializeEmbeddings() from `await this.embeddingProvider.isAvailable()` on
initializeEmbeddingsResumes(svc, available) ==
  IF available.threw
  THEN [svc EXCEPT !.pc = "failed", !.embeddingProvider = FALSE,
                   !.semanticSearchService = FALSE]
  ELSE IF ~available.returned[1]
       THEN [svc EXCEPT !.pc = "unavailable", !.embeddingProvider = FALSE]
       ELSE [svc EXCEPT !.pc = "backfilling", !.semanticSearchService = TRUE]

\* Promise.race settles with the promise that settles first (probe.first);
\* what settles later changes nothing.
\* ollama.embed({input: 'test'}) answers
probeFulfils ==
  /\ probe.embed = "pending"
  /\ IF probe.first = ""
     THEN LET available == isAvailable(TRUE) IN
          /\ probe' = [probe EXCEPT !.embed = "fulfilled", !.first = "embed",
                                    !.returned = available.returned,
                                    !.threw = available.threw]
          /\ service' = initializeEmbeddingsResumes(service, available)
     ELSE /\ probe' = [probe EXCEPT !.embed = "fulfilled"]
          /\ UNCHANGED service
  /\ UNCHANGED <<acquisition, batching, storing, searching, served, analysing, maintaining, isolating, calling, racing>>

\* ollama.embed({input: 'test'}) fails
probeRejects ==
  /\ probe.embed = "pending"
  /\ IF probe.first = ""
     THEN LET available == isAvailable(FALSE) IN
          /\ probe' = [probe EXCEPT !.embed = "rejected", !.first = "embed",
                                    !.returned = available.returned,
                                    !.threw = available.threw]
          /\ service' = initializeEmbeddingsResumes(service, available)
     ELSE /\ probe' = [probe EXCEPT !.embed = "rejected"]
          /\ UNCHANGED service
  /\ UNCHANGED <<acquisition, batching, storing, searching, served, analysing, maintaining, isolating, calling, racing>>

\* setTimeout(() => reject(new Error('Timeout')), 5000) fires
probeTimeout ==
  /\ probe.timer = "pending"
  /\ IF probe.first = ""
     THEN LET available == isAvailable(FALSE) IN
          /\ probe' = [probe EXCEPT !.timer = "fired", !.first = "timer",
                                    !.returned = available.returned,
                                    !.threw = available.threw]
          /\ service' = initializeEmbeddingsResumes(service, available)
     ELSE /\ probe' = [probe EXCEPT !.timer = "fired"]
          /\ UNCHANGED service
  /\ UNCHANGED <<acquisition, batching, storing, searching, served, analysing, maintaining, isolating, calling, racing>>

\* await this.generateMissingEmbeddings() is over; it catches its own errors
generateMissingEmbeddingsDone ==
  /\ service.pc = "backfilling"
  /\ service' = [service EXCEPT !.pc = "ready"]
  /\ UNCHANGED <<acquisition, batching, storing, searching, probe, served, analysing, maintaining, isolating, calling, racing>>

\* isSemanticSearchEnabled()
isSemanticSearchEnabled == service.semanticSearchService

\* the fallback of MemoryService.hybridSearch: the text results with fixed scores
lexicalFallback(textResults) ==
  [i \in 1..Len(textResults) |->
     [memory |-> textResults[i], similarity |-> 0, textScore |-> [num |-> 1, den |-> 1],
      combinedScore |-> 100, scale |-> 100]]

\* MemoryService.hybridSearch(query, {limit}); embeddingOk tells whether
\* generateEmbedding(query) inside searchSimilar succeeds
serviceHybridSearch(limit, embeddingOk) ==
  /\ served' =
       IF ~service.semanticSearchService
       THEN [called |-> TRUE, limit |-> limit, enabled |-> FALSE, embeddingFailed |-> FALSE,
             threw |-> FALSE,
             results |-> lexicalFallback(searchMemories(memories, textIndex, limit))]
       ELSE IF ~embeddingOk
            THEN [called |-> TRUE, limit |-> limit, enabled |-> TRUE,
                  embeddingFailed |-> TRUE, threw |-> TRUE, results |-> <<>>]
            ELSE [called |-> TRUE, limit |-> limit, enabled |-> TRUE,
                  embeddingFailed |-> FALSE, threw |-> FALSE,
                  results |-> hybridSearch(<<5, 0>>, limit, 50, NoCategory, 30, 70, TRUE,
                                           Today, memories, memory_embeddings, textIndex)]
  /\ UNCHANGED <<acquisition, batching, storing, searching, service, probe, analysing, maintaining, isolating, calling, racing>>

\* new MemoryService(config): with enableEmbeddings, initializeEmbeddings()
\* has run up to its await of isAvailable(), which has started the probe
\* call and the 5000 ms timer
ServiceInit ==
  /\ InitClock /\ InitCacheLog /\ InitCoalescer /\ retry = RetryIdle /\ InitBatch
  /\ InitAnalysing /\ InitMaintaining /\ InitIsolating /\ InitCalling /\ InitRacing
  /\ configModel = <<model>>
  /\ embedded = NotEmbedded
  /\ memories = [k \in 1..MaxLexical |->
                   [id |-> k, category |-> "facts", updated_at |-> Today - 3 * (k - 1)]]
  /\ memory_embeddings = {EmbeddingRow(1, <<5, 0>>, model), EmbeddingRow(3, <<3, 4>>, model)}
  /\ searched = NotSearched
  /\ hybridSearched = NotHybridSearched
  /\ textIndex \in TextRankings
  /\ \E enableEmbeddings \in BOOLEAN :
       /\ service = IF enableEmbeddings
                    THEN [ServiceOff EXCEPT !.enableEmbeddings = TRUE, !.pc = "probing",
                                            !.embeddingProvider = TRUE]
                    ELSE ServiceOff
       /\ probe = IF enableEmbeddings
                  THEN [NoProbe EXCEPT !.embed = "pending", !.timer = "pending"]
                  ELSE NoProbe
  /\ served = NotServed

ServiceNext ==
  \/ probeFulfils
  \/ probeRejects
  \/ probeTimeout
  \/ generateMissingEmbeddingsDone
  \/ \E limit \in Limits, embeddingOk \in BOOLEAN : serviceHybridSearch(limit, embeddingOk)

ServiceSpec == ServiceInit /\ [][ServiceNext]_vars

\* ---------------------------------- SemanticSearchService.findSimilarToMemory
NoEmbeddingFound == "No embedding found for memory"
NotAvailable == "Semantic search not available. Embeddings are disabled."

\* the row of the memory whatever its provider and model
getEmbeddingAnyModel(rows, memoryId, p, m) ==
  IF \E row \in rows : row.memory_id = memoryId
  THEN <<(CHOOSE row \in rows : row.memory_id = memoryId).embedding>>
  ELSE <<>>

\* db.getEmbedding(memoryId, provider, model): <<>> is null
getEmbedding(rows, memoryId, p, m) ==
  IF \E row \in rows : row.memory_id = memoryId /\ row.provider = p /\ row.model = m
  THEN <<(CHOOSE row \in rows : row.memory_id = memoryId /\ row.provider = p
                                 /\ row.model = m).embedding>>
  ELSE <<>>

\* the candidates with the source memory among them
keepSource(items, memoryId) == items

\* .filter(item => item.memory.id !== memoryId)
excludeSource(items, memoryId) == SelectSeq(items, LAMBDA item : item.memory.id # memoryId)

\* .filter(category), .map(similarity), .filter(>= minSimilarity), .sort, .slice
similarTo(sourceEmbedding, memoriesWithEmbeddings, limit, minSimilarity, category) ==
  LET filteredMemories ==
        IF Truthy(category)
        THEN SelectSeq(memoriesWithEmbeddings, LAMBDA item : item.memory.category = category)
        ELSE memoriesWithEmbeddings
      scored == [i \in 1..Len(filteredMemories) |->
                   [memory |-> filteredMemories[i].memory,
                    similarity |-> similarity(sourceEmbedding, filteredMemories[i].embedding),
                    embedding |-> filteredMemories[i].embedding]]
      kept == SelectSeq(scored, LAMBDA result : GreaterEq(result.similarity, minSimilarity))
  IN sliceTo(sort(kept, [i \in 1..Len(kept) |-> kept[i].similarity]), limit)

\* findSimilarToMemory(memoryId, {limit, minSimilarity, category})
findSimilarToMemory(memoryId, limit, minSimilarity, category, mems, rows) ==
  LET sourceEmbedding == getEmbedding(rows, memoryId, nameProvider, nameModel) IN
  IF sourceEmbedding = <<>>
  THEN [threw |-> NoEmbeddingFound, results |-> <<>>]
  ELSE [threw |-> "",
        results |-> similarTo(sourceEmbedding[1],
                              excludeSource(getMemoriesWithEmbeddings(mems, rows, nameProvider,
                                                                      nameModel),
                                            memoryId),
                              limit, minSimilarity, category)]

\* MemoryService.findSimilarMemories(memoryId, options)
findSimilarMemories(memoryId, limit, minSimilarity, category) ==
  IF ~service.semanticSearchService
  THEN [threw |-> NotAvailable, results |-> <<>>]
  ELSE findSimilarToMemory(memoryId, limit, minSimilarity, category, memories,
                           memory_embeddings)

\* x || y on numbers
OrElse(x, y) == IF x = 0 THEN y ELSE x

\* the find_similar_memories tool: the handler answers the request with the
\* results or, from its catch, with an error response. A behaviour follows a
\* request and, when it was answered with an error, the request after it.
find_similar_memories(memory_id, limit, min_similarity, category) ==
  /\ ~similar.called \/ (similar.isError /\ ~similar.afterError)
  /\ LET found == findSimilarMemories(memory_id, OrElse(limit, 5), OrElse(min_similarity, 70),
                                      category)
     IN similar' = [called |-> TRUE, memory_id |-> memory_id, limit |-> OrElse(limit, 5),
                    minSimilarity |-> OrElse(min_similarity, 70), category |-> category,
                    threw |-> found.threw, results |-> found.results,
                    isError |-> found.threw # "", afterError |-> similar.isError]
  /\ UNCHANGED <<acquisition, batching, storing, searching, serving, clustered, maintaining, isolating, calling, racing>>

\* a MemoryService whose initializeEmbeddings has ended with the provider available
ServiceReady ==
  [enableEmbeddings |-> TRUE, pc |-> "ready", embeddingProvider |-> TRUE,
   semanticSearchService |-> TRUE]

\* the source is memory 1, whose category is fixed and whose place in the
\* order and vector vary with the tables, or memory 4, which does not exist
SimilarMemoryTables == {t \in MemoryTables : t[1].category = "facts"}
SourceIds == {1, 4}

SimilarInit ==
  /\ InitClock /\ InitCacheLog /\ InitCoalescer /\ retry = RetryIdle /\ InitBatch
  /\ InitMaintaining /\ InitIsolating /\ InitCalling /\ InitRacing
  /\ configModel = <<model>>
  /\ embedded = NotEmbedded
  /\ memories \in SimilarMemoryTables
  /\ memory_embeddings \in EmbeddingTables
  /\ searched = NotSearched
  /\ textIndex = <<>>
  /\ hybridSearched = NotHybridSearched
  /\ service = ServiceReady
  /\ probe = NoProbe
  /\ served = NotServed
  /\ similar = NotSimilar
  /\ clustered = NotClustered

SimilarNext ==
  \E memory_id \in SourceIds, limit \in {0, 1}, min_similarity \in {0, 60},
     category \in {NoCategory, "facts"} :
    find_similar_memories(memory_id, limit, min_similarity, category)

SimilarSpec == SimilarInit /\ [][SimilarNext]_vars

\* -------------------------------------- SemanticSearchService.clusterMemories
\* avgSimilarity is kept as the pair of totalSimilarity (in hundredths) and
\* cluster.length; the sort compares total * AvgScale / length, which is a
\* whole number for every cluster of up to five members.
AvgScale == 60

\* the scan that leaves `processed` as it was: a record can join again later
markNothing(processed, id) == processed

\* processed.add(id)
markProcessed(processed, id) == processed \cup {id}

\* for (const other of memoriesWithEmbeddings) { ... } for a seed, from the
\* j-th item on; acc holds cluster, totalSimilarity and processed
RECURSIVE scanOthers(_, _, _, _, _)
scanOthers(items, seed, j, acc, threshold) ==
  IF j > Len(items) THEN acc
  ELSE IF items[j].memory.id = seed.memory.id \/ items[j].memory.id \in acc.processed
  THEN scanOthers(items, seed, j + 1, acc, threshold)
  ELSE IF GreaterEq(similarity(seed.embedding, items[j].embedding), threshold)
  THEN scanOthers(items, seed, j + 1,
                  [cluster |-> Append(acc.cluster,
                                      [memory |-> items[j].memory,
                                       similarity |-> similarity(seed.embedding,
                                                                 items[j].embedding).v,
                                       embedding |-> items[j].embedding]),
                   totalSimilarity |-> acc.totalSimilarity
                                         + similarity(seed.embedding, items[j].embedding).v,
                   processed |-> markProcessed(acc.processed, items[j].memory.id)],
                  threshold)
  ELSE scanOthers(items, seed, j + 1, acc, threshold)

\* every cluster is kept whatever its size
keepAnySize(clusters, scanned, minClusterSize) ==
  Append(clusters, [cluster |-> scanned.cluster,
                    avgSimilarity |-> [total |-> scanned.totalSimilarity,
                                       length |-> Len(scanned.cluster)]])

\* the size test is strict: a cluster of exactly minClusterSize is dropped
pushIfLarger(clusters, scanned, minClusterSize) ==
  IF Len(scanned.cluster) > minClusterSize
  THEN Append(clusters, [cluster |-> scanned.cluster,
                         avgSimilarity |-> [total |-> scanned.totalSimilarity,
                                            length |-> Len(scanned.cluster)]])
  ELSE clusters

\* if (cluster.length >= minClusterSize) clusters.push({cluster, avgSimilarity})
pushIfLargeEnough(clusters, scanned, minClusterSize) ==
  IF Len(scanned.cluster) >= minClusterSize
  THEN Append(clusters, [cluster |-> scanned.cluster,
                         avgSimilarity |-> [total |-> scanned.totalSimilarity,
                                            length |-> Len(scanned.cluster)]])
  ELSE clusters

\* one round of the outer loop for the scanned seed
afterSeed(items, i, scanned, clusters, minClusterSize) ==
  [clusters |-> pushIfLargeEnough(clusters, scanned, minClusterSize),
   processed |-> markProcessed(scanned.processed, items[i].memory.id)]

\* for (const item of memoriesWithEmbeddings) { ... } from the i-th item on
RECURSIVE seedsFrom(_, _, _, _, _)
seedsFrom(items, i, state, threshold, minClusterSize) ==
  IF i > Len(items) THEN state.clusters
  ELSE IF items[i].memory.id \in state.processed
  THEN seedsFrom(items, i + 1, state, threshold, minClusterSize)
  ELSE seedsFrom(items, i + 1,
                 afterSeed(items, i,
                           scanOthers(items, items[i], 1,
                                      [cluster |-> <<[memory |-> items[i].memory,
                                                      similarity |-> 100,
                                                      embedding |-> items[i].embedding]>>,
                                       totalSimilarity |-> 100,
                                       processed |-> state.processed],
                                      threshold),
                           state.clusters, minClusterSize),
                 threshold, minClusterSize)

\* the clusters in the order they were pushed
clustersAsPushed(clusters) == clusters

\* clusters.sort((a, b) => b.avgSimilarity - a.avgSimilarity)
sortClusters(clusters) ==
  sort(clusters, [i \in 1..Len(clusters) |->
                    [nan |-> FALSE,
                     v |-> (clusters[i].avgSimilarity.total * AvgScale)
                             \div clusters[i].avgSimilarity.length]])

\* clusterMemories(threshold, minClusterSize)
clusterMemories(threshold, minClusterSize, mems, rows) ==
  sortClusters(seedsFrom(getMemoriesWithEmbeddings(mems, rows, nameProvider, nameModel), 1,
                         [clusters |-> <<>>, processed |-> {}], threshold, minClusterSize))

\* the one call of clusterMemories in a behaviour
clusterMemoriesReturns(threshold, minClusterSize) ==
  /\ ~clustered.called
  /\ clustered' = [called |-> TRUE, threshold |-> threshold,
                   minClusterSize |-> minClusterSize,
                   clusters |-> clusterMemories(threshold, minClusterSize, memories,
                                                memory_embeddings)]
  /\ UNCHANGED <<acquisition, batching, storing, searching, serving, similar, maintaining, isolating, calling, racing>>

\* four memories, updated in rowid order or in the reverse order, each
\* without a vector, with a vector of another model or of the active model
ClusterMemoryTables ==
  {[k \in 1..4 |-> [id |-> k, category |-> "facts", updated_at |-> k]],
   [k \in 1..4 |-> [id |-> k, category |-> "facts", updated_at |-> 5 - k]]}

ClusterEmbeddingTables ==
  {r[1] \cup r[2] \cup r[3] \cup r[4] :
     r \in RowChoices(1) \X RowChoices(2) \X RowChoices(3) \X RowChoices(4)}

\* five memories: the vectors of the first four have cosine 0.95 with one
\* another, the vector of the fifth has cosine 0.1 with each of them; every
\* vector has norm 20
FiveMemories == [k \in 1..5 |-> [id |-> k, category |-> "facts", updated_at |-> 10 - k]]

Common == <<19, 4, 1, 1, 1>>
Own(k) == [i \in 1..8 |-> IF i = 2 * k - 1 THEN 4 ELSE IF i = 2 * k THEN 2 ELSE 0]
Isolated == <<2, 0, 1, 1, 0>> \o [i \in 1..8 |-> 0] \o <<15, 13>>

FiveEmbeddings ==
  {EmbeddingRow(k, Common \o Own(k) \o <<0, 0>>, model) : k \in 1..4}
    \cup {EmbeddingRow(5, Isolated, model)}

Thresholds == {60, 80, 96, 100}           \* threshold (0.8 by default)
MinClusterSizes == {0, 1, 2, 3}           \* minClusterSize (2 by default)

ClusterInit ==
  /\ InitClock /\ InitCacheLog /\ InitCoalescer /\ retry = RetryIdle /\ InitBatch
  /\ InitServing /\ InitAnalysing /\ InitMaintaining /\ InitIsolating /\ InitCalling /\ InitRacing
  /\ configModel = <<model>>
  /\ embedded = NotEmbedded
  /\ \/ memories \in ClusterMemoryTables /\ memory_embeddings \in ClusterEmbeddingTables
     \/ memories = FiveMemories /\ memory_embeddings = FiveEmbeddings
  /\ searched = NotSearched
  /\ textIndex = <<>>
  /\ hybridSearched = NotHybridSearched

ClusterNext ==
  \E threshold \in Thresholds, minClusterSize \in MinClusterSizes :
    clusterMemoriesReturns(threshold, minClusterSize)

ClusterSpec == ClusterInit /\ [][ClusterNext]_vars

\* ------------------------------- MemoryService.storeMemory and updateMemory
MaxMemories == 2     \* most rows of table memories

\* what generateAndStoreEmbedding(memory) can end with: the vector is stored,
\* or generateEmbedding fails (provider error, timeout, retries exhausted,
\* batch rejected) and the error is thrown on
WriteErrors == ProviderErrors \cup {"retryExhausted", "batchRejected"}
WriteOutcomes ==
  [ok : {TRUE}, embedding : {<<5, 0>>, <<4, 3>>}, error : {""}]
    \cup [ok : {FALSE}, embedding : {<<>>}, error : WriteErrors]

\* db.createMemory(id, content, category, ...): the row it inserts and returns
createMemory(id, content, category) ==
  [id |-> id, content |-> content, category |-> category, updated_at |-> now]

\* the position of the row with this id, or 0: SELECT * FROM memories WHERE id = ?
getMemory(mems, id) ==
  IF \E i \in 1..Len(mems) : mems[i].id = id
  THEN CHOOSE i \in 1..Len(mems) : mems[i].id = id
  ELSE 0

\* the call ends by throwing what generateAndStoreEmbedding threw
writeRethrows(w, outcome) ==
  [w EXCEPT !.pc = "returned", !.outcome = IF outcome.ok THEN "ok" ELSE outcome.error,
            !.threw = ~outcome.ok,
            !.returned = IF outcome.ok THEN <<w.record[1]>> ELSE <<>>]

\* try { await generateAndStoreEmbedding(memory) } catch { console.warn(...) }
\* return this.parseMemoryMetadata(memory)
writeReturns(w, outcome) ==
  [w EXCEPT !.pc = "returned", !.outcome = IF outcome.ok THEN "ok" ELSE outcome.error,
            !.threw = FALSE, !.returned = <<w.record[1]>>]

\* storeMemory(input) up to its await, or to its end without semantic search
storeMemory(content, category) ==
  /\ written.pc # "embedding"
  /\ Len(memories) < MaxMemories
  /\ LET memory == createMemory(Len(memories) + 1, content, category) IN
     /\ memories' = Append(memories, memory)
     /\ written' =
          IF service.semanticSearchService
          THEN [pc |-> "embedding", op |-> "store", id |-> memory.id, record |-> <<memory>>,
                regenerate |-> TRUE, outcome |-> "", returned |-> <<>>, threw |-> FALSE,
                persisted |-> Append(memories, memory), rowsBefore |-> memory_embeddings]
          ELSE [pc |-> "returned", op |-> "store", id |-> memory.id, record |-> <<memory>>,
                regenerate |-> FALSE, outcome |-> "", returned |-> <<memory>>,
                threw |-> FALSE, persisted |-> Append(memories, memory),
                rowsBefore |-> memory_embeddings]
  /\ UNCHANGED <<acquisition, batching, storing, searched, textIndex, hybridSearched, serving,
                 analysing, backfill, isolating, calling, racing>>

\* updateMemory(id, {content}) up to its await, or to its end when the row
\* does not exist, the content is empty or semantic search is off
updateMemory(id, content) ==
  /\ written.pc # "embedding"
  /\ LET i == getMemory(memories, id) IN
     IF i = 0
     THEN /\ written' = [pc |-> "returned", op |-> "update", id |-> id, record |-> <<>>,
                         regenerate |-> FALSE, outcome |-> "", returned |-> <<>>,
                         threw |-> FALSE, persisted |-> memories,
                         rowsBefore |-> memory_embeddings]
          /\ UNCHANGED memories
     ELSE LET updatedMemory == [memories[i] EXCEPT !.content = content, !.updated_at = now]
              regenerate == Truthy(content) /\ service.semanticSearchService
          IN /\ memories' = [memories EXCEPT ![i] = updatedMemory]
             /\ written' = [pc |-> IF regenerate THEN "embedding" ELSE "returned",
                            op |-> "update", id |-> id, record |-> <<updatedMemory>>,
                            regenerate |-> regenerate, outcome |-> "",
                            returned |-> IF regenerate THEN <<>> ELSE <<updatedMemory>>,
                            threw |-> FALSE,
                            persisted |-> [memories EXCEPT ![i] = updatedMemory],
                            rowsBefore |-> memory_embeddings]
  /\ UNCHANGED <<acquisition, batching, storing, searched, textIndex, hybridSearched, serving,
                 analysing, backfill, isolating, calling, racing>>

\* the awaited generateAndStoreEmbedding(memory) settles and the call returns
writeEmbeddingSettles(outcome) ==
  /\ written.pc = "embedding"
  /\ memory_embeddings' =
       IF outcome.ok
       THEN storeEmbedding(memory_embeddings, written.id, outcome.embedding, nameProvider,
                           nameModel, dimensions)
       ELSE memory_embeddings
  /\ written' = writeReturns(written, outcome)
  /\ UNCHANGED <<acquisition, batching, configModel, embedded, searching, serving, analysing,
                 backfill, isolating, calling, racing>>

\* time passes between the calls and during the await
WriteTick ==
  /\ now < MaxNow
  /\ now' = now + 1
  /\ UNCHANGED <<cache, cacheLog, coalescer, retry, rest>>

WriteInit ==
  /\ InitClock /\ InitCacheLog /\ InitCoalescer /\ retry = RetryIdle /\ InitBatch
  /\ InitStoring /\ InitSearching /\ InitAnalysing /\ InitMaintaining /\ InitIsolating /\ InitCalling /\ InitRacing
  /\ service \in {ServiceOff, ServiceReady}
  /\ probe = NoProbe
  /\ served = NotServed

WriteNext ==
  \/ \E content \in Texts : storeMemory(content, "facts")
  \/ \E id \in 1..(MaxMemories + 1), content \in Texts \cup {""} : updateMemory(id, content)
  \/ \E outcome \in WriteOutcomes : writeEmbeddingSettles(outcome)
  \/ WriteTick

WriteSpec == WriteInit /\ [][WriteNext]_vars

\* ------------------------------ SemanticSearchService.ensureEmbeddingsExist
MaxBackfill == 3          \* most records given to ensureEmbeddingsExist
backfillBatchSize == 2    \* const batchSize = 32

BackfillVector == <<5, 0>>                \* the vector the provider answers with

\* every record is taken as missing, whatever the store holds
missingAll(mems, rows) == [k \in 1..Len(mems) |-> mems[k].id]

\* the records without a vector of the active provider and model, in order
missingOf(mems, rows) ==
  LET ids == [k \in 1..Len(mems) |-> mems[k].id] IN
  SelectSeq(ids, LAMBDA id : getEmbedding(rows, id, nameProvider, nameModel) = <<>>)

\* missingEmbeddings.slice(i, i + batchSize)
batchOf(b) == slice(b.missingEmbeddings, b.i, backfillBatchSize)

\* the for loop goes to the next chunk, or the function returns
nextBatch(b) ==
  IF b.i + backfillBatchSize < Len(b.missingEmbeddings)
  THEN [b EXCEPT !.pc = "batch", !.i = b.i + backfillBatchSize, !.j = 0]
  ELSE [b EXCEPT !.pc = "returned", !.i = b.i + backfillBatchSize, !.j = 0]

\* the fallback loop goes to the next record of the chunk, or the chunk is done
nextRecord(b) ==
  IF b.j + 1 < Len(batchOf(b)) THEN [b EXCEPT !.j = b.j + 1] ELSE nextBatch(b)

\* the failure of one record ends the whole call
individualFailureThrown(b) == [b EXCEPT !.pc = "returned", !.threw = TRUE]

\* catch (individualError) { console.error(...) }: the record is skipped
individualFailureLogged(b) == nextRecord(b)

\* ensureEmbeddingsExist(memories) up to its first await, or to its return
\* when nothing is missing
ensureEmbeddingsExist ==
  /\ backfill.pc = "idle"
  /\ LET missingEmbeddings == missingOf(memories, memory_embeddings) IN
     backfill' = [pc |-> IF Len(missingEmbeddings) = 0 THEN "returned" ELSE "batch",
                  missingEmbeddings |-> missingEmbeddings, i |-> 0, j |-> 0,
                  trace |-> <<>>, threw |-> FALSE, rowsBefore |-> memory_embeddings]
  /\ UNCHANGED <<acquisition, batching, storing, searching, serving, analysing, written, isolating, calling, racing>>

RECURSIVE storeAll(_, _)
storeAll(rows, ids) ==
  IF Len(ids) = 0 THEN rows
  ELSE storeAll(storeEmbedding(rows, ids[1], BackfillVector, nameProvider, nameModel,
                               dimensions),
                SubSeq(ids, 2, Len(ids)))

\* await this.embeddingProvider.generateBatchEmbeddings(texts) settles
backfillBatchSettles(ok) ==
  /\ backfill.pc = "batch"
  /\ IF ok
     THEN /\ memory_embeddings' = storeAll(memory_embeddings, batchOf(backfill))
          /\ backfill' = [nextBatch(backfill) EXCEPT
                            !.trace = Append(@, [kind |-> "batch", ids |-> batchOf(backfill),
                                                 ok |-> TRUE])]
     ELSE /\ UNCHANGED memory_embeddings
          /\ backfill' = [backfill EXCEPT
                            !.pc = "individual", !.j = 0,
                            !.trace = Append(@, [kind |-> "batch", ids |-> batchOf(backfill),
                                                 ok |-> FALSE])]
  /\ UNCHANGED <<acquisition, batching, configModel, embedded, searching, serving, analysing,
                 written, isolating, calling, racing>>

\* await this.generateAndStoreEmbedding(memory) of the fallback settles
backfillIndividualSettles(ok) ==
  /\ backfill.pc = "individual"
  /\ LET id == batchOf(backfill)[backfill.j + 1]
         logged == [backfill EXCEPT
                      !.trace = Append(@, [kind |-> "single", ids |-> <<id>>, ok |-> ok])]
     IN IF ok
        THEN /\ memory_embeddings' = storeAll(memory_embeddings, <<id>>)
             /\ backfill' = nextRecord(logged)
        ELSE /\ UNCHANGED memory_embeddings
             /\ backfill' = individualFailureLogged(logged)
  /\ UNCHANGED <<acquisition, batching, configModel, embedded, searching, serving, analysing,
                 written, isolating, calling, racing>>

\* up to MaxBackfill memories, each without a vector, with a vector of
\* another model or with an older vector of the active model
BackfillTables ==
  UNION {{[k \in 1..n |-> [id |-> k, category |-> "facts", updated_at |-> k]]} :
           n \in 0..MaxBackfill}

BackfillRows(n) ==
  SUBSET {EmbeddingRow(k, <<4, 3>>, m) : k \in 1..n, m \in {model, otherModel}}

BackfillInit ==
  /\ InitClock /\ InitCacheLog /\ InitCoalescer /\ retry = RetryIdle /\ InitBatch
  /\ InitAnalysing /\ InitMaintaining /\ InitIsolating /\ InitCalling /\ InitRacing
  /\ configModel = <<model>>
  /\ embedded = NotEmbedded
  /\ memories \in BackfillTables
  /\ memory_embeddings \in BackfillRows(Len(memories))
  /\ searched = NotSearched
  /\ textIndex = <<>>
  /\ hybridSearched = NotHybridSearched
  /\ service = ServiceReady
  /\ probe = NoProbe
  /\ served = NotServed

BackfillNext ==
  \/ ensureEmbeddingsExist
  \/ \E ok \in BOOLEAN : backfillBatchSettles(ok)
  \/ \E ok \in BOOLEAN : backfillIndividualSettles(ok)

BackfillSpec == BackfillInit /\ [][BackfillNext]_vars

\* ----------------------------- MemoryService: calls that run concurrently
\* storeMemory and updateMemory are async: each writes the row, then awaits
\* generateAndStoreEmbedding(memory), and other calls run during the await.
\* The awaited generations settle in any order: one is answered from the
\* cache while another waits for the provider, or they are in different
\* batches.
MaxInflight == 2     \* most generations awaited at one time

\* the vector the provider computes for a content
embeddingOf(content) ==
  IF content = "a" THEN <<5, 0>> ELSE IF content = "b" THEN <<4, 3>> ELSE <<0, 5>>

RemoveAt(q, k) == SubSeq(q, 1, k - 1) \o SubSeq(q, k + 1, Len(q))

\* randomUUID(): an id no record has or had
newId == Len(memories) + Cardinality(inflight.deleted) + 1

\* the row is inserted whether or not its record exists
insertUnchecked(mems, rows, id, embedding) ==
  [ok |-> TRUE,
   rows |-> storeEmbedding(rows, id, embedding, nameProvider, nameModel, dimensions)]

\* db.storeEmbedding(id, ...) on the table with its FOREIGN KEY (memory_id)
\* REFERENCES memories(id): the insert throws when the record is gone
insertEmbedding(mems, rows, id, embedding) ==
  IF getMemory(mems, id) = 0 THEN [ok |-> FALSE, rows |-> rows]
  ELSE [ok |-> TRUE,
        rows |-> storeEmbedding(rows, id, embedding, nameProvider, nameModel, dimensions)]

\* storeMemory(input) up to its await
storeMemoryBegins(content, category) ==
  /\ newId <= MaxMemories
  /\ Len(inflight.pending) < MaxInflight
  /\ LET memory == createMemory(newId, content, category) IN
     /\ memories' = Append(memories, memory)
     /\ inflight' =
          IF service.semanticSearchService
          THEN [inflight EXCEPT !.pending = Append(@, [id |-> memory.id, content |-> content])]
          ELSE inflight
  /\ UNCHANGED <<acquisition, batching, storing, searched, textIndex, hybridSearched, serving,
                 analysing, maintaining, isolating, calling>>

\* if (input.content && this.semanticSearchService)
regenerateIfContent(content) == Truthy(content) /\ service.semanticSearchService

\* updateMemory(id, {content}) up to its await, or to its end
updateMemoryBegins(id, content) ==
  /\ Len(inflight.pending) < MaxInflight
  /\ LET i == getMemory(memories, id) IN
     IF i = 0 THEN UNCHANGED <<memories, inflight>>
     ELSE /\ memories' = [memories EXCEPT ![i] = [@ EXCEPT !.content = content,
                                                           !.updated_at = now]]
          /\ inflight' =
               IF regenerateIfContent(content)
               THEN [inflight EXCEPT !.pending = Append(@, [id |-> id, content |-> content])]
               ELSE inflight
  /\ UNCHANGED <<acquisition, batching, storing, searched, textIndex, hybridSearched, serving,
                 analysing, maintaining, isolating, calling>>

\* the k-th awaited generateAndStoreEmbedding(memory) settles: the vector of
\* the content the call was given is stored, or the failure (of the
\* generation, or of the insert for a record that is gone) is logged
generateAndStoreEmbeddingSettles(k, ok) ==
  /\ k \in 1..Len(inflight.pending)
  /\ LET p == inflight.pending[k]
         stored == insertEmbedding(memories, memory_embeddings, p.id, embeddingOf(p.content))
     IN
     /\ memory_embeddings' = IF ok THEN stored.rows ELSE memory_embeddings
     /\ inflight' = [inflight EXCEPT !.pending = RemoveAt(@, k),
                                     !.failed = @ \/ ~ok,
                                     !.refused = IF ok /\ ~stored.ok THEN @ \cup {p.id}
                                                 ELSE @]
  /\ UNCHANGED <<acquisition, batching, configModel, embedded, searching, serving, analysing,
                 maintaining, isolating, calling>>

FreshInit ==
  /\ InitClock /\ InitCacheLog /\ InitCoalescer /\ retry = RetryIdle /\ InitBatch
  /\ InitStoring /\ InitSearching /\ InitAnalysing /\ InitMaintaining /\ InitIsolating
  /\ InitCalling /\ InitRacing
  /\ service = ServiceReady
  /\ probe = NoProbe
  /\ served = NotServed

FreshNext ==
  \/ \E content \in Texts : storeMemoryBegins(content, "facts")
  \/ \E id \in 1..MaxMemories, content \in Texts \cup {""} : updateMemoryBegins(id, content)
  \/ \E k \in 1..MaxInflight, ok \in BOOLEAN : generateAndStoreEmbeddingSettles(k, ok)

FreshSpec == FreshInit /\ [][FreshNext]_vars

\* --------------------------------- deleteMemory during awaited generations
\* DELETE FROM memories WHERE id = ?, with ON DELETE CASCADE on
\* memory_embeddings; returns changes > 0
deleteMemory(id) ==
  /\ getMemory(memories, id) # 0
  /\ memories' = SelectSeq(memories, LAMBDA memory : memory.id # id)
  /\ memory_embeddings' = {row \in memory_embeddings : row.memory_id # id}
  /\ inflight' = [inflight EXCEPT !.deleted = @ \cup {id}]
  /\ UNCHANGED <<acquisition, batching, configModel, embedded, searched, textIndex,
                 hybridSearched, serving, analysing, maintaining, isolating, calling>>

\* batch.forEach((memory, index) => this.db.storeEmbedding(...)): the rows
\* after the loop, and the id at which an insert threw (0 when none did)
RECURSIVE storeEach(_, _, _)
storeEach(mems, rows, ids) ==
  IF Len(ids) = 0 THEN [rows |-> rows, threwAt |-> 0]
  ELSE LET stored == insertEmbedding(mems, rows, ids[1], BackfillVector) IN
       IF stored.ok THEN storeEach(mems, stored.rows, SubSeq(ids, 2, Len(ids)))
       ELSE [rows |-> rows, threwAt |-> ids[1]]

\* ensureEmbeddingsExist: the awaited generateBatchEmbeddings(texts) settles;
\* an insert that throws sends the chunk to the individual fallback
backfillBatchLands(ok) ==
  /\ backfill.pc = "batch"
  /\ LET stored == storeEach(memories, memory_embeddings, batchOf(backfill))
         logged == [backfill EXCEPT
                      !.trace = Append(@, [kind |-> "batch", ids |-> batchOf(backfill),
                                           ok |-> ok])]
     IN IF ok /\ stored.threwAt = 0
        THEN /\ memory_embeddings' = stored.rows
             /\ backfill' = nextBatch(logged)
             /\ UNCHANGED inflight
        ELSE /\ memory_embeddings' = IF ok THEN stored.rows ELSE memory_embeddings
             /\ backfill' = [logged EXCEPT !.pc = "individual", !.j = 0]
             /\ inflight' = [inflight EXCEPT
                               !.refused = IF ok THEN @ \cup {stored.threwAt} ELSE @]
  /\ UNCHANGED <<acquisition, batching, configModel, embedded, searching, serving, analysing,
                 written, isolating, calling>>

\* ensureEmbeddingsExist: the awaited generateAndStoreEmbedding(memory) of
\* the fallback settles; what it throws is logged
backfillIndividualLands(ok) ==
  /\ backfill.pc = "individual"
  /\ LET id == batchOf(backfill)[backfill.j + 1]
         stored == insertEmbedding(memories, memory_embeddings, id, BackfillVector)
         logged == [backfill EXCEPT
                      !.trace = Append(@, [kind |-> "single", ids |-> <<id>>,
                                           ok |-> ok /\ stored.ok])]
     IN /\ memory_embeddings' = IF ok THEN stored.rows ELSE memory_embeddings
        /\ backfill' = IF ok /\ stored.ok THEN nextRecord(logged)
                       ELSE individualFailureLogged(logged)
        /\ inflight' = [inflight EXCEPT
                          !.refused = IF ok /\ ~stored.ok THEN @ \cup {id} ELSE @]
  /\ UNCHANGED <<acquisition, batching, configModel, embedded, searching, serving, analysing,
                 written, isolating, calling>>

OrphanNext ==
  \/ storeMemoryBegins("a", "facts")
  \/ \E id \in 1..MaxMemories : updateMemoryBegins(id, "b")
  \/ \E k \in 1..MaxInflight, ok \in BOOLEAN : generateAndStoreEmbeddingSettles(k, ok)
  \/ \E id \in 1..MaxMemories : deleteMemory(id)
  \/ ensureEmbeddingsExist
  \/ \E ok \in BOOLEAN : backfillBatchLands(ok)
  \/ \E ok \in BOOLEAN : backfillIndividualLands(ok)

OrphanSpec == FreshInit /\ [][OrphanNext]_vars

\* ------------------------- MemoryService: initialization that is not awaited
\* getRecentMemories(1000) of generateMissingEmbeddings
recentLimit == 1000

\* SELECT * FROM memories ORDER BY updated_at DESC LIMIT ?
getRecentMemories(mems, limit) ==
  LET ordered == OrderByUpdatedAtDesc(mems, 1..Len(mems)) IN
  sliceTo([i \in 1..Len(ordered) |-> mems[ordered[i]]], limit)

\* the probe answers before the timer: initializeEmbeddings() resumes, sets
\* semanticSearchService and runs without a break through
\* generateMissingEmbeddings() into ensureEmbeddingsExist(allMemories), up to
\* its first await or to its return when nothing is missing
initializeEmbeddingsContinues ==
  /\ probe.embed = "pending"
  /\ probe.first = ""
  /\ LET available == isAvailable(TRUE)
         svc == initializeEmbeddingsResumes(service, available)
         allMemories == getRecentMemories(memories, recentLimit)
         missingEmbeddings == missingOf(allMemories, memory_embeddings)
     IN /\ probe' = [probe EXCEPT !.embed = "fulfilled", !.first = "embed",
                                  !.returned = available.returned,
                                  !.threw = available.threw]
        /\ service' = svc
        /\ backfill' =
             IF svc.semanticSearchService
             THEN [pc |-> IF Len(missingEmbeddings) = 0 THEN "returned" ELSE "batch",
                   missingEmbeddings |-> missingEmbeddings, i |-> 0, j |-> 0,
                   trace |-> <<>>, threw |-> FALSE, rowsBefore |-> memory_embeddings]
             ELSE backfill
  /\ UNCHANGED <<acquisition, batching, storing, searching, served, analysing, written,
                 isolating, calling, racing>>

\* the 5000 ms timer of the probe fires after the probe has answered
probeTimerFiresLate ==
  /\ probe.first # ""
  /\ probeTimeout

\* ensureEmbeddingsExist has returned: generateMissingEmbeddings() and
\* initializeEmbeddings() end
initializeEmbeddingsEnds ==
  /\ backfill.pc = "returned"
  /\ generateMissingEmbeddingsDone

\* records that exist when the service is constructed, with or without a
\* vector of the active model
ExistingMemories ==
  {<<>>, <<[id |-> 1, content |-> "b", category |-> "decisions", updated_at |-> 0]>>}

\* new MemoryService({enableEmbeddings: true}) on a database that may hold
\* records: the constructor has returned, the probe is out
RaceInit ==
  /\ InitClock /\ InitCacheLog /\ InitCoalescer /\ retry = RetryIdle /\ InitBatch
  /\ InitAnalysing /\ InitMaintaining /\ InitIsolating /\ InitCalling /\ InitRacing
  /\ configModel = <<model>>
  /\ embedded = NotEmbedded
  /\ memories \in ExistingMemories
  /\ memory_embeddings \in
       {{}} \cup {{EmbeddingRow(memories[k].id, <<3, 4>>, model)} : k \in 1..Len(memories)}
  /\ searched = NotSearched
  /\ hybridSearched = NotHybridSearched
  /\ textIndex = <<>>
  /\ service = [enableEmbeddings |-> TRUE, pc |-> "probing", embeddingProvider |-> TRUE,
                semanticSearchService |-> FALSE]
  /\ probe = [embed |-> "pending", timer |-> "pending", first |-> "", returned |-> <<>>,
              threw |-> FALSE]
  /\ served = NotServed

\* the provider is available and never fails
RaceNext ==
  \/ \E category \in {"facts", "decisions"} : storeMemoryBegins("a", category)
  \/ initializeEmbeddingsContinues
  \/ probeTimerFiresLate
  \/ backfillBatchLands(TRUE)
  \/ \E k \in 1..MaxInflight : generateAndStoreEmbeddingSettles(k, TRUE)
  \/ initializeEmbeddingsEnds

RaceSpec == RaceInit /\ [][RaceNext]_vars

\* every awaited promise settles, and the timer fires
RaceFairSpec ==
  /\ RaceSpec
  /\ WF_vars(initializeEmbeddingsContinues)
  /\ WF_vars(probeTimerFiresLate)
  /\ WF_vars(backfillBatchLands(TRUE))
  /\ WF_vars(\E k \in 1..MaxInflight : generateAndStoreEmbeddingSettles(k, TRUE))
  /\ WF_vars(initializeEmbeddingsEnds)

\* ------------------------------ MemoryServer: numeric tool arguments
\* Numbers are in hundredths; Absent is an argument the request leaves out
\* (undefined).
Absent == -1

\* (args.x as number) || d
orDefault(x, d) == IF x = Absent \/ x = 0 THEN d ELSE x

\* const { x = d } = options: the default of a destructured option
optionDefault(x, d) == IF x = Absent THEN d ELSE x

\* case 'semantic_search_memory': what searchSimilar works with
semantic_search_memory(limit, min_similarity) ==
  /\ toolCall' = [tool |-> "semantic_search_memory",
                  given |-> <<limit, min_similarity>>,
                  applied |-> <<optionDefault(orDefault(limit, 5), 10),
                                optionDefault(orDefault(min_similarity, 70), 70)>>,
                  defaults |-> <<5, 70>>]
  /\ UNCHANGED <<acquisition, batching, storing, searching, serving, analysing, maintaining,
                 isolating, racing>>

\* case 'hybrid_search_memory': what SemanticSearchService.hybridSearch works with
hybrid_search_memory(limit, text_weight, semantic_weight) ==
  /\ toolCall' = [tool |-> "hybrid_search_memory",
                  given |-> <<limit, text_weight, semantic_weight>>,
                  applied |-> <<optionDefault(orDefault(limit, 10), 10),
                                optionDefault(orDefault(text_weight, 30), 30),
                                optionDefault(orDefault(semantic_weight, 70), 70)>>,
                  defaults |-> <<10, 30, 70>>]
  /\ UNCHANGED <<acquisition, batching, storing, searching, serving, analysing, maintaining,
                 isolating, racing>>

\* case 'find_similar_memories': what findSimilarToMemory works with
find_similar_memories_arguments(limit, min_similarity) ==
  /\ toolCall' = [tool |-> "find_similar_memories",
                  given |-> <<limit, min_similarity>>,
                  applied |-> <<optionDefault(orDefault(limit, 5), 5),
                                optionDefault(orDefault(min_similarity, 70), 70)>>,
                  defaults |-> <<5, 70>>]
  /\ UNCHANGED <<acquisition, batching, storing, searching, serving, analysing, maintaining,
                 isolating, racing>>

\* case 'store_memory': the relevance_score MemoryService.storeMemory hands
\* to db.createMemory, which writes it to the row
store_memory(relevance_score) ==
  /\ toolCall' = [tool |-> "store_memory",
                  given |-> <<relevance_score>>,
                  applied |-> <<optionDefault(orDefault(relevance_score, 100), 100)>>,
                  defaults |-> <<100>>]
  /\ UNCHANGED <<acquisition, batching, storing, searching, serving, analysing, maintaining,
                 isolating, racing>>

ToolLimits == {Absent, 1, 5, 20}
ToolFractions == {Absent, 0, 30, 70, 100}

ToolInit ==
  /\ InitClock /\ InitCacheLog /\ InitCoalescer /\ retry = RetryIdle /\ InitRest

ToolNext ==
  \/ \E limit \in ToolLimits, min_similarity \in ToolFractions :
       semantic_search_memory(limit, min_similarity)
  \/ \E limit \in ToolLimits, text_weight \in ToolFractions, semantic_weight \in ToolFractions :
       hybrid_search_memory(limit, text_weight, semantic_weight)
  \/ \E limit \in ToolLimits, min_similarity \in ToolFractions :
       find_similar_memories_arguments(limit, min_similarity)
  \/ \E relevance_score \in ToolFractions : store_memory(relevance_score)

ToolSpec == ToolInit /\ [][ToolNext]_vars

\* ------------------------------- BaseEmbeddingProvider: one cache each
\* Two provider instances constructed from two configurations. The
\* constructor gives every instance a MemoryEmbeddingCache of its own; a
\* vector is written as the (provider, model, text) it was produced for.
Instances == {1, 2}
IsolationProviders == {"ollama", "openai"}
IsolationModels == {"", "default", "m", "m:x"}
IsolationTexts == {"a", "x:a"}

\* this.config.model || 'default'
modelOrDefault(m) == IF Truthy(m) THEN m ELSE "default"

\* getCacheKey(text) of an instance configured with config
getCacheKeyOf(config, text) ==
  config.provider \o ":" \o modelOrDefault(config.model) \o ":" \o text

\* what the provider configured with config answers for text
producedBy(config, text) ==
  [provider |-> config.provider, model |-> config.model, text |-> text]

\* one Map shared by the instances
sharedCache(i) == 1

\* this.cache of instance i: new MemoryEmbeddingCache() in its constructor
cacheOf(i) == i

\* generateEmbedding(text) on instance i, the provider answering
generateEmbeddingOn(i, text) ==
  LET config == providers.config[i]
      key == getCacheKeyOf(config, text)
      got == CacheGet(providers.cache[cacheOf(i)], key, now)
      embedding == producedBy(config, text)
  IN
  /\ cacheEnabled
  /\ providers' =
       IF got.hit
       THEN [providers EXCEPT
               !.cache[cacheOf(i)] = got.cache,
               !.last = [instance |-> i, text |-> text, hit |-> TRUE,
                         embedding |-> got.embedding]]
       ELSE [providers EXCEPT
               !.cache[cacheOf(i)] = CacheSet(got.cache, key, embedding, now),
               !.last = [instance |-> i, text |-> text, hit |-> FALSE,
                         embedding |-> embedding]]
  /\ UNCHANGED <<acquisition, batching, storing, searching, serving, analysing, maintaining, calling, racing>>

IsolationConfigs ==
  {[provider |-> p, model |-> m] : p \in IsolationProviders, m \in IsolationModels}

IsolationInit ==
  /\ InitClock /\ InitCacheLog /\ InitCoalescer /\ retry = RetryIdle
  /\ InitBatch /\ InitStoring /\ InitSearching /\ InitServing
  /\ InitAnalysing /\ InitMaintaining /\ InitCalling /\ InitRacing
  /\ \E c1, c2 \in IsolationConfigs :
       providers = [NoProviders EXCEPT !.config = <<c1, c2>>]

IsolationNext ==
  \E i \in Instances, text \in IsolationTexts : generateEmbeddingOn(i, text)

IsolationSpec == IsolationInit /\ [][IsolationNext]_vars

\* ====================================================== claims: coalescer
Range(q) == {q[i] : i \in 1..Len(q)}

Resolved(r) == calls[r].resolved # <<>>
Rejected(r) == calls[r].rejected # <<>>
Settlements(r) == Len(calls[r].resolved) + Len(calls[r].rejected)

\* the places (dispatch, position) at which request r was sent to the provider
PlacesOf(r) ==
  {p \in UNION {{<<d, i>> : i \in 1..Len(dispatched[d].batch)} : d \in 1..Len(dispatched)} :
     dispatched[p[1]].batch[p[2]] = r}

TextAt(d, i) == calls[dispatched[d].batch[i]].text

\* C1: a request that entered the queue is resolved or rejected at most once
\* in total (never both, never twice), and it is a member of at most one
\* dispatched batch, at one position.
C1_SettledAtMostOnce ==
  \A r \in 1..Len(calls) :
    /\ Settlements(r) <= 1
    /\ Cardinality(PlacesOf(r)) <= 1

\* two dispatches were made, one resolved its requests and one rejected them
C1_Witness ==
  \E r1, r2 \in 1..Len(calls) :
    /\ calls[r1].queued /\ Resolved(r1)
    /\ calls[r2].queued /\ Rejected(r2)

\* C3: when a batch call succeeds, the request at position i of the batch is
\* resolved with exactly the vector at position i of the provider response.
C3_PositionalAlignment ==
  \A d \in 1..Len(dispatched) :
    dispatched[d].status = "ok" =>
      /\ Len(dispatched[d].embeddings) = Len(dispatched[d].batch)
      /\ \A i \in 1..Len(dispatched[d].batch) :
           calls[dispatched[d].batch[i]].resolved = <<dispatched[d].embeddings[i]>>

\* a successful batch held the same text twice and got two different vectors,
\* while another dispatch was in flight
C3_Witness ==
  \E d, e \in 1..Len(dispatched) :
    /\ dispatched[d].status = "ok"
    /\ Len(dispatched[d].batch) = 2
    /\ TextAt(d, 1) = TextAt(d, 2)
    /\ dispatched[d].embeddings[1] # dispatched[d].embeddings[2]
    /\ dispatched[e].status = "inflight"

\* every call so far was queued before the first dispatch: one debounce window
\* on an idle coalescer
Burst ==
  /\ Len(dispatched) > 0
  /\ dispatched[1].seen = Len(calls)
  /\ \A r \in 1..Len(calls) : calls[r].queued

Chunk(d, K) ==
  [i \in 1..(IF d * batchSize <= K THEN batchSize ELSE K - (d - 1) * batchSize) |->
     (d - 1) * batchSize + i]

Quiet ==
  /\ sleepers = 0
  /\ timers = 0
  /\ \A d \in 1..Len(dispatched) : dispatched[d].status # "inflight"

\* C4: K calls queued in one debounce window on an idle coalescer are sent in
\* FIFO order in batches of exactly batchSize, the last one holding the rest:
\* ceil(K / batchSize) batch calls once everything has run.
C4_BatchComposition ==
  Burst =>
    LET K == Len(calls) IN
    /\ Len(dispatched) <= (K + batchSize - 1) \div batchSize
    /\ \A d \in 1..Len(dispatched) : dispatched[d].batch = Chunk(d, K)
    /\ (batchQueue = <<>> \/ Quiet) => Len(dispatched) = (K + batchSize - 1) \div batchSize

\* three calls in one window with batchSize 2 (or MaxCalls with any batchSize
\* below it): a full batch, then the rest
C4_Witness ==
  /\ Burst
  /\ Quiet
  /\ Len(calls) > batchSize
  /\ Len(dispatched) = 2
  /\ Len(dispatched[1].batch) = batchSize
  /\ Len(dispatched[2].batch) = Len(calls) - batchSize

\* C5: a failed batch call rejects exactly the requests of that batch, all with
\* the error of that call, and resolves none of them; a request outside the
\* failed batches is not rejected, and a request still queued is not settled.
C5_FailureRejectsBatchOnly ==
  /\ \A d \in 1..Len(dispatched) :
       dispatched[d].status = "failed" =>
         \A i \in 1..Len(dispatched[d].batch) :
           /\ calls[dispatched[d].batch[i]].rejected = <<dispatched[d].error>>
           /\ calls[dispatched[d].batch[i]].resolved = <<>>
  /\ \A r \in 1..Len(calls) :
       Rejected(r) =>
         \E d \in 1..Len(dispatched) :
           dispatched[d].status = "failed" /\ r \in Range(dispatched[d].batch)
  /\ \A r \in Range(batchQueue) : Settlements(r) = 0

\* a batch of two failed while a request queued before that dispatch was left
\* out of it, and that request was dispatched later and resolved
C5_Witness ==
  \E d, e \in 1..Len(dispatched) :
    /\ d < e
    /\ dispatched[d].status = "failed"
    /\ Len(dispatched[d].batch) = 2
    /\ dispatched[e].status = "ok"
    /\ \A r \in Range(dispatched[e].batch) : r <= dispatched[d].seen

\* the number of provider calls made for one batch
Attempts(batch) ==
  Cardinality({d \in 1..Len(dispatched) : dispatched[d].batch = batch})

\* C6: a coalesced batch is rejected for a transient provider failure only
\* after maxRetries provider calls were made for it.
C6_RejectedAfterRetries ==
  \A d \in 1..Len(dispatched) :
    (dispatched[d].status = "failed" /\ dispatched[d].error \in ProviderErrors) =>
      Attempts(dispatched[d].batch) = maxRetries

\* how often a text was submitted to the provider
Submissions(text) ==
  Cardinality({p \in UNION {{<<d, i>> : i \in 1..Len(dispatched[d].batch)} :
                              d \in 1..Len(dispatched)} : TextAt(p[1], p[2]) = text})

\* C7: with the cache enabled, while every call lies within one TTL window, a
\* text is submitted to the provider at most once.
C7_SubmittedAtMostOnce ==
  (cacheEnabled /\ now <= ttl) => \A text \in Texts : Submissions(text) <= 1

Settled(r) == r <= Len(calls) /\ Settlements(r) >= 1

\* C2: under FairSpec every queued request is eventually resolved or rejected,
\* and the queue is eventually empty for good.
C2_EveryRequestSettles ==
  /\ \A r \in 1..MaxCalls : (r \in Range(batchQueue)) ~> Settled(r)
  /\ <>[](batchQueue = <<>>)

\* a request that arrived after the first dispatch had started was settled by
\* a later dispatch, and nothing is left to run
C2_Witness ==
  /\ Quiet
  /\ batchQueue = <<>>
  /\ Len(dispatched) >= 2
  /\ \E r \in 1..Len(calls) :
       calls[r].queued /\ r > dispatched[1].seen /\ Settlements(r) = 1

\* ========================================== claims: MemoryEmbeddingCache
\* C8: get(key) returns a vector only if the key was set and the latest set is
\* at most ttl old, and then it returns the vector of that set; an entry found
\* expired gives a miss and is removed.
C8_NoStaleHit ==
  lastOp.op = "get" =>
    LET k == lastOp.key
        i == MapIndex(lastOp.before, k)
    IN /\ lastOp.hit =>
            /\ lastSet[k].at >= 0
            /\ lastOp.at - lastSet[k].at <= ttl
            /\ lastOp.embedding = lastSet[k].embedding
       /\ (i # 0 /\ lastOp.at - lastOp.before[i].timestamp > ttl) =>
            /\ ~lastOp.hit
            /\ MapIndex(cache, k) = 0
            /\ Len(cache) = Len(lastOp.before) - 1

\* a get found its entry expired, next to a fresh entry
C8_Witness ==
  /\ lastOp.op = "get"
  /\ ~lastOp.hit
  /\ Len(lastOp.before) = 2
  /\ MapIndex(lastOp.before, lastOp.key) # 0
  /\ Len(cache) = 1

\* C9: with maxSize >= 1 the cache never holds more than maxSize entries,
\* whatever keys are set.
C9_SizeBounded == maxSize >= 1 => cacheSize <= maxSize

\* ================================================ claims: retryWithBackoff
\* C10: operation is invoked at most maxRetries times; the first success is
\* returned and ends the invocations; the call fails only after maxRetries
\* failed attempts, with the error of the last attempt wrapped, and having
\* slept between the attempts only.
C10_RetryContract ==
  LET m == retry.maxRetries
      n == Len(retry.outcomes)
  IN /\ retry.opCalls <= m
     /\ \A i \in 1..n : retry.outcomes[i].ok => (i = n /\ retry.pc = "returned")
     /\ retry.pc = "returned" =>
          /\ retry.opCalls = n
          /\ retry.outcomes[n].ok
          /\ retry.result = <<retry.outcomes[n].value>>
     /\ retry.pc = "thrown" =>
          /\ retry.opCalls = m
          /\ n = m
          /\ retry.thrown = [attempts |-> m, message |-> retry.outcomes[m].error]
          /\ Len(retry.sleeps) = m - 1

\* three attempts failed, the last one with another error than the first
C10_Witness ==
  /\ retry.pc = "thrown"
  /\ retry.maxRetries = 3
  /\ retry.outcomes[1].error # retry.outcomes[3].error

\* C11 as stated: the delay waited immediately before attempt n >= 2 is
\* min(baseDelay * 2^(n-1), 10000 ms).
C11_DelayBeforeAttemptN ==
  \A n \in 2..retry.opCalls :
    retry.sleeps[n - 1] =
      (IF retry.baseDelay * 2^(n - 1) > 10000 THEN 10000 ELSE retry.baseDelay * 2^(n - 1))

\* C11 amended: the delay waited immediately before attempt n >= 2 is
\* min(baseDelay * 2^(n-2), 10000 ms), the first retry waiting baseDelay, and
\* no delay exceeds 10000 ms.
C11_BackoffSchedule ==
  /\ Len(retry.sleeps) \in {retry.opCalls - 1, retry.opCalls}
  /\ \A n \in 2..(Len(retry.sleeps) + 1) :
       retry.sleeps[n - 1] =
         (IF retry.baseDelay * 2^(n - 2) > 10000 THEN 10000 ELSE retry.baseDelay * 2^(n - 2))
  /\ \A k \in 1..Len(retry.sleeps) : retry.sleeps[k] <= 10000

\* a fourth attempt was made after delays of 4000, 8000 and a limited 10000 ms
C11_Witness ==
  /\ retry.opCalls = 4
  /\ retry.baseDelay = 4000
  /\ retry.sleeps = <<4000, 8000, 10000>>

\* =========================================== claims: generateBatchEmbeddings
\* C12: after a provider response with a wrong number of vectors, the provider
\* is not called again with the same list of texts.
C12_MismatchNotResubmitted ==
  \A k, j \in 1..Len(embedLog) :
    (k < j /\ embedLog[k].error = "mismatch") => embedLog[j].texts # embedLog[k].texts

\* the request that answered position p (from 1) of the input, if any
AnsweredBy(p) ==
  {k \in 1..Len(embedLog) :
     /\ embedLog[k].error = ""
     /\ embedLog[k].i < p
     /\ p <= embedLog[k].i + Len(embedLog[k].texts)}

\* C13: generateBatchEmbeddings either fails or returns one vector per text,
\* result[p] being the vector the provider gave for texts[p] in an answer of
\* the right length; an answer of another length is never accepted, and
\* nothing is returned unless every chunk succeeded.
C13_BatchResult ==
  /\ batchCall.pc = "returned" =>
       /\ Len(batchCall.returned) = Len(batchCall.texts)
       /\ \A p \in 1..Len(batchCall.texts) :
            /\ Cardinality(AnsweredBy(p)) = 1
            /\ \A k \in AnsweredBy(p) :
                 /\ embedLog[k].texts[p - embedLog[k].i] = batchCall.texts[p]
                 /\ batchCall.returned[p] = embedLog[k].embeddings[p - embedLog[k].i]
  /\ \A k \in 1..Len(embedLog) :
       embedLog[k].error = "" <=>
         /\ embedLog[k].count = Len(embedLog[k].texts)
         /\ Len(embedLog[k].embeddings) = Len(embedLog[k].texts)
         /\ embedLog[k].error \notin ProviderErrors
  /\ batchCall.pc # "returned" => batchCall.returned = <<>>
  /\ batchCall.pc = "thrown" =>
       /\ embedLog[Len(embedLog)].error # ""
       /\ batchCall.thrown = [attempts |-> maxRetries,
                              message |-> embedLog[Len(embedLog)].error]

\* three texts came back in two chunks, the second chunk after an answer of
\* the wrong length and a retry
C13_Witness ==
  /\ batchCall.pc = "returned"
  /\ Len(batchCall.texts) > batchSize
  /\ batchCall.returned[1] # batchCall.returned[Len(batchCall.texts)]
  /\ \E k \in 1..Len(embedLog) : embedLog[k].i > 0 /\ embedLog[k].error = "mismatch"

\* ======================================================== claims: dimensions
\* C14: a vector returned by a successful generateEmbedding has length
\* provider.dimensions, and every stored row holds a vector whose length is
\* the dimensions value stored with it.
C14_Dimensionality ==
  /\ embedded.ok => Len(embedded.embedding) = dimensions
  /\ \A row \in memory_embeddings : Len(row.embedding) = row.dimensions

\* ========================================================== claims: search
\* C16: the results of searchSimilar are non-increasing in similarity from
\* first to last.
C16_NonIncreasing ==
  \A i, j \in 1..Len(searched.results) :
    i < j =>
      /\ ~searched.results[i].similarity.nan
      /\ ~searched.results[j].similarity.nan
      /\ searched.results[i].similarity.v >= searched.results[j].similarity.v

\* three results came back in another order than the storage order
C16_Witness ==
  /\ Len(searched.results) = 3
  /\ searched.results[1].similarity.v > searched.results[3].similarity.v
  /\ searched.results[1].memory.updated_at < searched.results[3].memory.updated_at

\* the records that have a vector of the active (provider, model), the
\* requested category if one was requested, and a similarity >= minSimilarity
Qualifying ==
  {k \in 1..Len(memories) :
     /\ \E row \in memory_embeddings :
          /\ row.memory_id = k /\ row.provider = nameProvider /\ row.model = nameModel
          /\ ~similarity(searched.queryEmbedding, row.embedding).nan
          /\ similarity(searched.queryEmbedding, row.embedding).v >= searched.minSimilarity
     /\ searched.category # NoCategory => memories[k].category = searched.category}

ScoreOf(k) ==
  similarity(searched.queryEmbedding,
             (CHOOSE row \in memory_embeddings :
                row.memory_id = k /\ row.provider = nameProvider /\ row.model = nameModel).embedding).v

\* a ranks before b: higher score, or the same score and earlier in storage order
RanksBefore(a, b) ==
  \/ ScoreOf(a) > ScoreOf(b)
  \/ (ScoreOf(a) = ScoreOf(b) /\ memories[a].updated_at > memories[b].updated_at)

\* C17: searchSimilar returns the first `limit` of the qualifying records in
\* descending similarity, ties in storage order, each with its similarity.
C17_SearchReference ==
  searched.called =>
    LET R == searched.results IN
    /\ Len(R) = Min(searched.limit, Cardinality(Qualifying))
    /\ \A i \in 1..Len(R) :
         /\ R[i].memory.id \in Qualifying
         /\ R[i].memory = memories[R[i].memory.id]
         /\ R[i].similarity = [nan |-> FALSE, v |-> ScoreOf(R[i].memory.id)]
    /\ \A i, j \in 1..Len(R) : i < j => RanksBefore(R[i].memory.id, R[j].memory.id)
    /\ \A k \in Qualifying \ {R[i].memory.id : i \in 1..Len(R)} :
         \A i \in 1..Len(R) : RanksBefore(R[i].memory.id, k)

\* two of three qualifying records came back; the one left out scores like
\* the last one returned and is later in storage order
C17_Witness ==
  /\ searched.called
  /\ Len(searched.results) = 2
  /\ Cardinality(Qualifying) = 3
  /\ \E k \in Qualifying :
       /\ k \notin {searched.results[i].memory.id : i \in 1..2}
       /\ ScoreOf(k) = searched.results[2].similarity.v

\* ========================================================== claims: hybrid
ResultIds == [i \in 1..Len(hybridSearched.results) |-> hybridSearched.results[i].memory.id]

\* semanticWeight = 0, textWeight = 1, boostRecent = false
LexicalOnly ==
  /\ hybridSearched.called
  /\ hybridSearched.semanticWeight = 0
  /\ hybridSearched.textWeight = 100
  /\ ~hybridSearched.boostRecentMemories

\* C18 as stated: with semanticWeight 0, textWeight 1 and no recency boost the
\* returned records are the first `limit` records of the lexical result, in
\* the same order.
C18_EqualsLexicalRanking ==
  LexicalOnly =>
    ResultIds = SubSeq(textIndex, 1, Min(hybridSearched.limit, Len(textIndex)))

\* C18 amended: with semanticWeight 0, textWeight 1 and no recency boost the
\* returned records are, in lexical order, the first `limit` of the N fetched
\* lexical records (N at most 2 * limit) whose rank score (N - i) / N exceeds
\* 0.1; for N < 10 these are the first `limit` lexical records.
C18_LexicalOrderAboveThreshold ==
  LexicalOnly =>
    LET N == Min(2 * hybridSearched.limit, Len(textIndex))
        above == SelectSeq([i \in 1..N |-> i], LAMBDA i : 10 * (N - (i - 1)) > N)
        expected == [j \in 1..Min(hybridSearched.limit, Len(above)) |-> textIndex[above[j]]]
    IN /\ ResultIds = expected
       /\ N < 10 => ResultIds = SubSeq(textIndex, 1, Min(hybridSearched.limit, N))

\* ten lexical records and limit 10: nine records came back
C18_Witness ==
  /\ LexicalOnly
  /\ hybridSearched.limit = 10
  /\ Len(textIndex) = 10
  /\ ResultIds = SubSeq(textIndex, 1, 9)

\* the semantic pool of the last hybridSearch call
SemanticPool ==
  searchSimilar(hybridSearched.queryEmbedding, 2 * hybridSearched.limit,
                (hybridSearched.minSimilarity * 8) \div 10, NoCategory, memories,
                memory_embeddings)

\* the lexical pool of the last hybridSearch call
LexicalPool == SubSeq(textIndex, 1, Min(2 * hybridSearched.limit, Len(textIndex)))

CandidatesOf(S, T) ==
  {S[i].memory.id : i \in 1..Len(S)} \cup {T[i] : i \in 1..Len(T)}

SemanticScore(S, c) ==
  IF \E i \in 1..Len(S) : S[i].memory.id = c
  THEN S[CHOOSE i \in 1..Len(S) : S[i].memory.id = c].similarity.v
  ELSE 0

\* N - i for the record at 0-based rank i of the N lexical records, else 0
TextScoreNum(T, c) ==
  IF \E i \in 1..Len(T) : T[i] = c
  THEN Len(T) + 1 - (CHOOSE i \in 1..Len(T) : T[i] = c)
  ELSE 0

PoolScale(T) == IF Len(T) = 0 THEN 1 ELSE Len(T)

\* combinedScore times 30000 * PoolScale
CombinedScore(S, T, c) ==
  3 * PoolScale(T) * SemanticScore(S, c) * hybridSearched.semanticWeight
    + 300 * TextScoreNum(T, c) * hybridSearched.textWeight
    + (IF hybridSearched.boostRecentMemories /\ Today - memories[c].updated_at < 30
       THEN 100 * PoolScale(T) * (30 - (Today - memories[c].updated_at))
       ELSE 0)

AboveTenth(S, T) ==
  {c \in CandidatesOf(S, T) : CombinedScore(S, T, c) > 3000 * PoolScale(T)}

\* C20: the results of hybridSearch are candidates of the union of the
\* semantic and the lexical pool, each once, scored semanticScore *
\* semanticWeight + textScore * textWeight (+ recency boost), textScore being
\* (N - i) / N and a missing score 0; exactly those scoring above 0.1 are
\* kept, in non-increasing order of combinedScore, cut to `limit`.
C20_HybridReference ==
  hybridSearched.called =>
    LET R == hybridSearched.results
        S == SemanticPool
        T == LexicalPool
        kept == AboveTenth(S, T)
    IN /\ \A i, j \in 1..Len(R) : i # j => R[i].memory.id # R[j].memory.id
       /\ \A i \in 1..Len(R) :
            /\ R[i].memory.id \in kept
            /\ R[i].similarity = SemanticScore(S, R[i].memory.id)
            /\ R[i].textScore.num = TextScoreNum(T, R[i].memory.id)
            /\ R[i].textScore.den = Len(T)
            /\ R[i].combinedScore = CombinedScore(S, T, R[i].memory.id)
            /\ R[i].scale = 30000 * PoolScale(T)
       /\ Len(R) = Min(hybridSearched.limit, Cardinality(kept))
       /\ \A i, j \in 1..Len(R) : i < j => R[i].combinedScore >= R[j].combinedScore
       /\ \A c \in kept \ {R[i].memory.id : i \in 1..Len(R)} :
            \A i \in 1..Len(R) : R[i].combinedScore >= CombinedScore(S, T, c)

\* with the recency boost on, a record found by both searches, one found by
\* the semantic search only and one found by the lexical search only came
\* back, and a candidate was dropped for its score
C20_Witness ==
  /\ hybridSearched.called
  /\ hybridSearched.boostRecentMemories
  /\ \E i, j, k \in 1..Len(hybridSearched.results) :
       /\ hybridSearched.results[i].similarity > 0
       /\ hybridSearched.results[i].textScore.num > 0
       /\ hybridSearched.results[j].similarity > 0
       /\ hybridSearched.results[j].textScore.num = 0
       /\ hybridSearched.results[k].similarity = 0
       /\ hybridSearched.results[k].textScore.num > 0
  /\ AboveTenth(SemanticPool, LexicalPool) # CandidatesOf(SemanticPool, LexicalPool)

\* ================================================== claims: MemoryService
\* C15: isAvailable() never throws; once the race has settled it has returned
\* a boolean, true exactly when the probe call was the first to settle and
\* fulfilled; and when it has returned false, initializeEmbeddings has ended
\* without failing and semantic search is disabled.
C15_IsAvailableNeverThrows ==
  /\ ~probe.threw
  /\ probe.first # "" =>
       /\ Len(probe.returned) = 1
       /\ probe.returned[1] \in BOOLEAN
       /\ probe.returned[1] <=> (probe.first = "embed" /\ probe.embed = "fulfilled")
       /\ ~probe.returned[1] =>
            /\ ~isSemanticSearchEnabled
            /\ service.pc = "unavailable"

\* the timer fired before the probe call answered, the answer came
\* afterwards, and a hybrid search was then served without semantic search
C15_Witness ==
  /\ probe.first = "timer"
  /\ probe.embed = "fulfilled"
  /\ probe.returned = <<FALSE>>
  /\ ~isSemanticSearchEnabled
  /\ served.called

\* C19: a hybrid search made while semantic search is not available (it was
\* never enabled, the provider was unavailable at initialization, or the
\* embedding of the query cannot be generated) does not fail and returns the
\* lexical results, each with similarity 0 and combinedScore 1.
C19_GracefulDegradation ==
  (served.called /\ (~served.enabled \/ served.embeddingFailed)) =>
    /\ ~served.threw
    /\ served.results = lexicalFallback(searchMemories(memories, textIndex, served.limit))

\* ============================================ claims: findSimilarToMemory
ActiveRows == {row \in memory_embeddings : row.provider = nameProvider /\ row.model = nameModel}

\* C21: a find_similar_memories request for an id without a stored vector
\* of the active provider and model is answered with the error "No embedding
\* found" (isError, no results); answering a request issues no provider
\* call and changes neither the vector store nor the cache.
C21_EmbeddingNotFound ==
  /\ [](similar.called /\ (\A row \in ActiveRows : row.memory_id # similar.memory_id)
         => /\ similar.threw = NoEmbeddingFound
            /\ similar.isError
            /\ similar.results = <<>>)
  /\ [][similar' # similar =>
          UNCHANGED <<cache, calls, dispatched, embedLog, retry, memory_embeddings, memories>>]_vars

\* a request was answered with an error, and the request after it, for a
\* memory whose only vector belongs to another model, was answered with the
\* error "No embedding found"
C21_Witness ==
  /\ similar.afterError
  /\ similar.memory_id = 1
  /\ \E row \in memory_embeddings : row.memory_id = 1 /\ row.model = otherModel
  /\ similar.threw = NoEmbeddingFound
  /\ similar.isError

\* C22: findSimilarToMemory never returns the source record, and its result
\* is what searchSimilar returns for the source vector as the query over the
\* store without the source record's vector (same records, same
\* similarities, same order).
C22_ExcludesSource ==
  (similar.called /\ ~similar.isError) =>
    LET R == similar.results
        source == getEmbedding(memory_embeddings, similar.memory_id, nameProvider, nameModel)
        reference == searchSimilar(source[1], similar.limit, similar.minSimilarity,
                                   similar.category, memories,
                                   {row \in memory_embeddings :
                                      row.memory_id # similar.memory_id})
    IN /\ \A i \in 1..Len(R) : R[i].memory.id # similar.memory_id
       /\ Len(R) = Len(reference)
       /\ \A i \in 1..Len(R) : /\ R[i].memory = reference[i].memory
                                /\ R[i].similarity = reference[i].similarity

\* two other records came back, one of them with the very vector of the source
C22_Witness ==
  /\ similar.called
  /\ Len(similar.results) = 2
  /\ \E i \in 1..2 :
       similar.results[i].embedding =
         getEmbedding(memory_embeddings, similar.memory_id, nameProvider, nameModel)[1]

\* ================================================ claims: clusterMemories
\* the records clusterMemories reads, in storage order
Stored == getMemoriesWithEmbeddings(memories, memory_embeddings, nameProvider, nameModel)

\* the (cluster, member) places of the returned clusters
ClusterPlaces ==
  {p \in (1..Len(clustered.clusters)) \X (1..5) : p[2] <= Len(clustered.clusters[p[1]].cluster)}

MemberId(p) == clustered.clusters[p[1]].cluster[p[2]].memory.id

\* C23: no record id appears in two returned clusters or twice in one cluster.
C23_ClustersDisjoint ==
  clustered.called => \A p, q \in ClusterPlaces : p # q => MemberId(p) # MemberId(q)

\* a member of one returned cluster is at least as similar as the threshold
\* asks to the seed of another returned cluster
C23_Witness ==
  /\ clustered.called
  /\ \E p \in ClusterPlaces, c \in 1..Len(clustered.clusters) :
       /\ c # p[1]
       /\ GreaterEq(similarity(clustered.clusters[c].cluster[1].embedding,
                               clustered.clusters[p[1]].cluster[p[2]].embedding),
                    clustered.threshold)

\* the seed each stored record belongs to, by position in storage order: the
\* first earlier seed it is similar enough to, or itself
SeedOf(items, threshold) ==
  LET seedOf[i \in 1..Len(items)] ==
        LET earlier == {k \in 1..(i - 1) :
                          /\ seedOf[k] = k
                          /\ GreaterEq(similarity(items[k].embedding, items[i].embedding),
                                       threshold)}
        IN IF earlier = {} THEN i ELSE CHOOSE k \in earlier : \A l \in earlier : k <= l
  IN seedOf

\* the positions that joined seed k, the seed itself left out
JoinedTo(seedOf, k) == {i \in DOMAIN seedOf : seedOf[i] = k /\ i # k}

RECURSIVE SumOver(_, _)
SumOver(f, S) == IF S = {} THEN 0 ELSE LET x == CHOOSE y \in S : TRUE
                                       IN f[x] + SumOver(f, S \ {x})

\* the seeds whose cluster reaches minClusterSize
KeptSeeds(seedOf, minClusterSize) ==
  {k \in DOMAIN seedOf : seedOf[k] = k /\ Cardinality(JoinedTo(seedOf, k)) + 1 >= minClusterSize}

\* C24: every returned cluster has at least minClusterSize members, and every
\* seed whose cluster reaches minClusterSize is the first member of a
\* returned cluster.
C24_MinClusterSize ==
  clustered.called =>
    LET seedOf == SeedOf(Stored, clustered.threshold) IN
    /\ \A c \in 1..Len(clustered.clusters) :
         Len(clustered.clusters[c].cluster) >= clustered.minClusterSize
    /\ \A k \in KeptSeeds(seedOf, clustered.minClusterSize) :
         \E c \in 1..Len(clustered.clusters) :
           clustered.clusters[c].cluster[1].memory = Stored[k].memory

\* a cluster of exactly minClusterSize = 3 records was returned, and the
\* cluster of another seed was too small and is missing
C24_Witness ==
  /\ clustered.called
  /\ clustered.minClusterSize = 3
  /\ Len(clustered.clusters) = 1
  /\ Len(clustered.clusters[1].cluster) = 3
  /\ \E k \in DOMAIN SeedOf(Stored, clustered.threshold) :
       /\ SeedOf(Stored, clustered.threshold)[k] = k
       /\ k \notin KeptSeeds(SeedOf(Stored, clustered.threshold), clustered.minClusterSize)

\* C25: the returned clusters are those of the greedy pass: one per seed
\* whose cluster reaches minClusterSize, the seed first with similarity 1.0,
\* then the records that joined it in storage order with their similarity
\* to the seed; avgSimilarity is the mean of these similarities; the
\* clusters come in non-increasing avgSimilarity. For the five records with
\* four at 0.95 to one another and one at 0.1, threshold 0.8 and
\* minClusterSize 2, the output is one cluster of the four.
C25_GreedyReference ==
  clustered.called =>
    LET items == Stored
        seedOf == SeedOf(items, clustered.threshold)
        kept == KeptSeeds(seedOf, clustered.minClusterSize)
        R == clustered.clusters
        simTo(k) == [i \in DOMAIN seedOf |-> similarity(items[k].embedding, items[i].embedding).v]
    IN /\ Len(R) = Cardinality(kept)
       /\ \A k \in kept :
            \E c \in 1..Len(R) :
              LET cluster == R[c].cluster IN
              /\ Len(cluster) = Cardinality(JoinedTo(seedOf, k)) + 1
              /\ cluster[1].memory = items[k].memory
              /\ cluster[1].similarity = 100
              /\ \A m \in 2..Len(cluster) :
                   \E i \in JoinedTo(seedOf, k) :
                     /\ cluster[m].memory = items[i].memory
                     /\ cluster[m].similarity = simTo(k)[i]
                     /\ m = 1 + Cardinality({j \in JoinedTo(seedOf, k) : j <= i})
              /\ R[c].avgSimilarity.length = Len(cluster)
              /\ R[c].avgSimilarity.total = 100 + SumOver(simTo(k), JoinedTo(seedOf, k))
       /\ \A c, d \in 1..Len(R) :
            c < d => R[c].avgSimilarity.total * R[d].avgSimilarity.length
                       >= R[d].avgSimilarity.total * R[c].avgSimilarity.length
       /\ (memories = FiveMemories /\ clustered.threshold = 80 /\ clustered.minClusterSize = 2)
            => /\ Len(R) = 1
               /\ {R[1].cluster[m].memory.id : m \in 1..Len(R[1].cluster)} = 1..4
               /\ Len(R[1].cluster) = 4

\* the five records were clustered with threshold 0.8 and minClusterSize 2
C25_Witness ==
  /\ clustered.called
  /\ memories = FiveMemories
  /\ clustered.threshold = 80
  /\ clustered.minClusterSize = 2
  /\ Len(clustered.clusters) = 1
  /\ clustered.clusters[1].avgSimilarity = [total |-> 385, length |-> 4]

\* ======================================= claims: storeMemory, updateMemory
\* C26: a storeMemory or updateMemory call that has returned has not thrown,
\* whatever generateAndStoreEmbedding ended with: it returned the record it
\* wrote (null for an update of a missing id), that record is in the table,
\* the table is as the primary write left it, and after a failed generation
\* the vector store is as it was before the call.
C26_WriteSurvivesFailure ==
  written.pc = "returned" =>
    /\ ~written.threw
    /\ memories = written.persisted
    /\ written.returned = written.record
    /\ written.record # <<>> => \E i \in 1..Len(memories) : memories[i] = written.record[1]
    /\ (written.record = <<>>) <=> (written.op = "update" /\ getMemory(memories, written.id) = 0)
    /\ written.outcome \in WriteErrors => memory_embeddings = written.rowsBefore

\* an update of the content returned the updated record although the
\* retries for its new vector were exhausted; the older vector is still stored
C26_Witness ==
  /\ written.pc = "returned"
  /\ written.op = "update"
  /\ written.outcome = "retryExhausted"
  /\ written.returned # <<>>
  /\ written.returned[1].updated_at > 0
  /\ \E row \in memory_embeddings : row.memory_id = written.id

\* ========================================== claims: ensureEmbeddingsExist
\* the events of the trace of a kind that name the record
EventsFor(kind, id) ==
  {e \in 1..Len(backfill.trace) :
     /\ backfill.trace[e].kind = kind
     /\ \E m \in 1..Len(backfill.trace[e].ids) : backfill.trace[e].ids[m] = id}

\* the records whose generation succeeded, in a batch or on their own
Generated ==
  {id \in 1..Len(memories) :
     \E e \in EventsFor("batch", id) \cup EventsFor("single", id) : backfill.trace[e].ok}

\* C27: an ensureEmbeddingsExist call that has returned has not thrown;
\* every missing record was sent in one batch call, with its chunk; the
\* records of a failed batch call, and only they, were each generated
\* individually once; every record whose batch or individual generation
\* succeeded has a stored vector, the others were skipped, and the vectors
\* stored before are still there.
C27_BackfillSurvivesFailures ==
  backfill.pc = "returned" =>
    LET missing == backfill.missingEmbeddings IN
    /\ ~backfill.threw
    /\ \A m \in 1..Len(missing) :
         LET id == missing[m]
             chunk == slice(missing, ((m - 1) \div backfillBatchSize) * backfillBatchSize,
                            backfillBatchSize)
         IN /\ Cardinality(EventsFor("batch", id)) = 1
            /\ \A e \in EventsFor("batch", id) :
                 /\ backfill.trace[e].ids = chunk
                 /\ Cardinality(EventsFor("single", id)) = IF backfill.trace[e].ok THEN 0 ELSE 1
            /\ (id \in Generated) <=>
                 (getEmbedding(memory_embeddings, id, nameProvider, nameModel)
                    = <<BackfillVector>>)
    /\ backfill.rowsBefore \subseteq memory_embeddings

\* the first batch call failed, one of its two records failed again on its
\* own and the other did not, and the batch call of the next chunk succeeded
C27_Witness ==
  /\ backfill.pc = "returned"
  /\ Len(backfill.trace) = 4
  /\ ~backfill.trace[1].ok
  /\ backfill.trace[2].ok # backfill.trace[3].ok
  /\ backfill.trace[4].kind = "batch"
  /\ backfill.trace[4].ok

\* ================================================= claims: vector store key
\* what a provider configured with model m reads back for the memory
ReadAs(m, memoryId) ==
  getEmbedding(memory_embeddings, memoryId, split(nameOf(m))[1], split(nameOf(m))[2])

\* C28: the table holds at most one row per (memory id, provider, model), and
\* for every memory and every model name a provider was configured with, the
\* vector last stored under that name is the one read back under it: a later
\* store under the same name has replaced it, and stores under other names,
\* names with ':' included, have not touched it.
C28_StoreKeyInvariant ==
  /\ \A r1, r2 \in memory_embeddings :
       (r1.memory_id = r2.memory_id /\ r1.provider = r2.provider /\ r1.model = r2.model)
         => r1 = r2
  /\ \A g \in embedded.storedUnder : ReadAs(g.config, g.memory) = <<g.embedding>>


\* ------------------------------------------- claims: cache isolation
configOf(i) == providers.config[i]

CachedKeys == {<<i, k>> : i \in Instances, k \in 1..maxSize + 1}

Cached ==
  {[instance |-> p[1], entry |-> providers.cache[p[1]][p[2]]] :
     p \in {q \in CachedKeys : q[2] <= Len(providers.cache[q[1]])}}

HitIsOwn ==
  providers.last.hit =>
    providers.last.embedding =
      producedBy(configOf(providers.last.instance), providers.last.text)

\* C29 as stated: a cache hit for (provider, model, text) returns the vector
\* produced by that provider with that model for that text, and no two
\* distinct (provider, model, text) triples have the same cache key.
C29_CacheIsolation ==
  /\ HitIsOwn
  /\ \A e1, e2 \in Cached :
       e1.entry.key = e2.entry.key => e1.entry.embedding = e2.entry.embedding

\* C29 amended: a cache hit returns the vector produced by the asking
\* instance's provider and model for exactly the text asked; the cache is
\* private to one instance, and within one instance distinct texts have
\* distinct keys. Keys of distinct triples may coincide across instances.
C29_PrivateCacheIsolation ==
  /\ HitIsOwn
  /\ \A i \in Instances : \A t1, t2 \in IsolationTexts :
       t1 # t2 => getCacheKeyOf(configOf(i), t1) # getCacheKeyOf(configOf(i), t2)
  /\ \A e \in Cached :
       /\ e.entry.key = getCacheKeyOf(configOf(e.instance), e.entry.embedding.text)
       /\ e.entry.embedding = producedBy(configOf(e.instance), e.entry.embedding.text)

\* a hit in one instance while the other instance, configured differently,
\* holds another triple's vector under the same key
C29_Witness ==
  /\ providers.last.hit
  /\ \E e \in Cached :
       /\ e.instance # providers.last.instance
       /\ e.entry.key = getCacheKeyOf(configOf(providers.last.instance), providers.last.text)
       /\ e.entry.embedding # providers.last.embedding

\* ------------------------------------------ claims: coalescer dispatch
InFlight == {d \in 1..Len(dispatched) : dispatched[d].status = "inflight"}

\* C30: at most one provider batch call issued by processBatch is in flight,
\* and processingBatch is true exactly while such a call is in flight.
C30_SingleDispatch ==
  /\ Cardinality(InFlight) <= 1
  /\ processingBatch <=> InFlight # {}

\* ------------------------------------------------ claims: FIFO dispatch
\* the places <<d, i>> of the requests submitted to the provider
Submitted == {<<d, i>> : d \in 1..MaxCalls, i \in 1..MaxCalls}

Places == {p \in Submitted : p[1] <= Len(dispatched) /\ p[2] <= Len(dispatched[p[1]].batch)}

\* C31: requests leave the queue from its head in enqueue order: a request
\* enqueued before another is submitted at an earlier position of the same
\* batch or in an earlier batch, requests still queued were enqueued after
\* every submitted one, and every batch has between 1 and batchSize texts.
C31_FifoDispatch ==
  /\ \A d \in 1..Len(dispatched) :
       Len(dispatched[d].batch) >= 1 /\ Len(dispatched[d].batch) <= batchSize
  /\ \A p, q \in Places :
       dispatched[p[1]].batch[p[2]] < dispatched[q[1]].batch[q[2]]
         => (p[1] < q[1] \/ (p[1] = q[1] /\ p[2] < q[2]))
  /\ \A k \in 1..Len(batchQueue) :
       /\ \A l \in 1..(k - 1) : batchQueue[l] < batchQueue[k]
       /\ \A p \in Places : dispatched[p[1]].batch[p[2]] < batchQueue[k]

\* a full batch was dispatched while a further request was queued behind
\* it, and that request went out in the next batch
C31_Witness ==
  /\ Len(dispatched) >= 2
  /\ Len(dispatched[1].batch) = batchSize
  /\ dispatched[2].batch[1] <= dispatched[1].seen

\* --------------------------------------------- claims: cache population
\* the batch d has just come back with embeddings / with an error
BatchSucceeds(d) ==
  /\ d <= Len(dispatched) /\ dispatched[d].status = "inflight"
  /\ dispatched'[d].status = "ok"

BatchFails(d) ==
  /\ d <= Len(dispatched) /\ dispatched[d].status = "inflight"
  /\ dispatched'[d].status = "failed"

\* the cache holds for the request at position index the vector its caller got
CacheHoldsReturned(d, index) ==
  LET r == dispatched[d].batch[index]
      got == CacheGet(cache', getCacheKey(calls[r].text), now')
  IN got.hit /\ calls'[r].resolved = <<got.embedding>>

\* C32: after a coalesced batch succeeds the cache holds for each requested
\* text exactly the vector that was returned to the caller; a failed batch
\* leaves the cache unchanged.
C32_CachePopulation ==
  [][\A d \in 1..MaxCalls :
       /\ BatchSucceeds(d) =>
            \A index \in 1..Len(dispatched[d].batch) : CacheHoldsReturned(d, index)
       /\ BatchFails(d) => cache' = cache]_vars

\* ------------------------------------------- claims: cluster partition
StoredIds == {Stored[k].memory.id : k \in 1..Len(Stored)}

\* C33: with minClusterSize <= 1 every stored record of the active
\* (provider, model) is a member of exactly one returned cluster, and the
\* clusters hold nothing else.
C33_Partition ==
  (clustered.called /\ clustered.minClusterSize <= 1) =>
    /\ {MemberId(p) : p \in ClusterPlaces} = StoredIds
    /\ \A id \in StoredIds : Cardinality({p \in ClusterPlaces : MemberId(p) = id}) = 1

\* a cluster of one record and a cluster of several are returned, while
\* another record has no vector of the active model
C33_Witness ==
  /\ clustered.called /\ clustered.minClusterSize <= 1
  /\ \E c, e \in 1..Len(clustered.clusters) :
       Len(clustered.clusters[c].cluster) = 1 /\ Len(clustered.clusters[e].cluster) >= 2
  /\ \E k \in 1..Len(memories) : memories[k].id \notin StoredIds

\* --------------------------------- claims: backfill touches what is missing
\* the records that had a vector of the active provider and model when the
\* ensureEmbeddingsExist call started
HadVector ==
  {id \in 1..Len(memories) :
     getEmbedding(backfill.rowsBefore, id, nameProvider, nameModel) # <<>>}

\* C34: once ensureEmbeddingsExist has been called, a record that had a
\* vector of the active (provider, model) at the start is in no provider
\* request of the call and its stored vector is the one it had; when no
\* record was missing, no provider request is made and the store is as before.
C34_TouchesOnlyMissing ==
  backfill.pc # "idle" =>
    /\ \A id \in HadVector :
         /\ EventsFor("batch", id) = {} /\ EventsFor("single", id) = {}
         /\ getEmbedding(memory_embeddings, id, nameProvider, nameModel)
              = getEmbedding(backfill.rowsBefore, id, nameProvider, nameModel)
    /\ HadVector = 1..Len(memories) =>
         backfill.trace = <<>> /\ memory_embeddings = backfill.rowsBefore

\* the call has returned after storing the vector of a missing record,
\* while another record had its vector from the start
C34_Witness ==
  /\ backfill.pc = "returned"
  /\ Generated # {}
  /\ HadVector # {}

\* ----------------------------------------- claims: numeric tool arguments
\* C35: a numeric argument the request gives, the value 0 included, reaches
\* the service unchanged; the documented default is used only when the
\* argument is absent.
C35_ArgumentsUnchanged ==
  \A k \in 1..Len(toolCall.given) :
    toolCall.applied[k] =
      IF toolCall.given[k] = Absent THEN toolCall.defaults[k] ELSE toolCall.given[k]

\* --------------------------------------------- claims: vector freshness
NoWriteInFlight == inflight.pending = <<>> /\ ~inflight.failed

\* C36: whenever no storeMemory or updateMemory call is in flight and no
\* generation has failed, the stored vector of each record is the embedding
\* of the record's current content.
C36_VectorFresh ==
  NoWriteInFlight =>
    \A i \in 1..Len(memories) :
      getEmbedding(memory_embeddings, memories[i].id, nameProvider, nameModel)
        = <<embeddingOf(memories[i].content)>>

\* ------------------------------------------ claims: hybridSearch category
\* C37: when hybridSearch is given a category, every result it returns is a
\* record of that category.
C37_CategoryHonoured ==
  hybridSearched.called =>
    \A i \in 1..Len(hybridSearched.results) :
      hybridSearched.results[i].memory.category = hybridSearched.category

\* ------------------------------------------------ claims: orphan vectors
\* C38: every stored vector belongs to an existing record, and no vector
\* has the id of a record that was deleted.
C38_NoOrphanVectors ==
  \A row \in memory_embeddings :
    /\ getMemory(memories, row.memory_id) # 0
    /\ row.memory_id \notin inflight.deleted

\* a record was deleted while its generation, or a backfill that had it on
\* its list, was awaited, the insert of its vector was refused afterwards,
\* and the vector of another record is stored
C38_Witness ==
  /\ inflight.refused # {}
  /\ inflight.refused \subseteq inflight.deleted
  /\ memory_embeddings # {}

\* ------------------------------------------ claims: initialization race
\* a record has its vector of the active provider and model
HasVector(id) == getEmbedding(memory_embeddings, id, nameProvider, nameModel) # <<>>

\* the record was created by storeMemory
CreatedByStoreMemory(id) ==
  getMemory(memories, id) # 0 /\ memories[getMemory(memories, id)].content = "a"

\* C39: initialization is started without being awaited; with a provider that
\* is available and never fails and at most 1000 records, every record that
\* storeMemory creates, whether before the probe has answered, during the
\* backfill or after it, eventually has a stored vector, and once
\* isSemanticSearchEnabled() is true it stays true
C39_InitializationRace ==
  /\ \A id \in 1..MaxMemories : CreatedByStoreMemory(id) ~> HasVector(id)
  /\ [](isSemanticSearchEnabled => [](isSemanticSearchEnabled))

\* initialization is over; a record that storeMemory created while the probe
\* was out got its vector from the backfill, and one stored after the service
\* was set got its vector from its own call
C39_Witness ==
  /\ service.pc = "ready"
  /\ isSemanticSearchEnabled
  /\ inflight.pending = <<>>
  /\ \E early, late \in 1..MaxMemories :
       /\ CreatedByStoreMemory(early) /\ CreatedByStoreMemory(late)
       /\ early \in Range(backfill.missingEmbeddings)
       /\ late \notin Range(backfill.missingEmbeddings)
       /\ HasVector(early) /\ HasVector(late)

====
